---- MODULE Spec2Model ----
(***************************************************************************)
(* Range-of-Outcomes (ROO) simulation engine of nfl_dfs_scripts            *)
(* (src/roo_simulator.py), modelled as state machines over small tables.   *)
(*                                                                         *)
(* Numbers.  The program computes in IEEE doubles.  The model computes in  *)
(* fixed point with three decimals: the integer n stands for n / 1000      *)
(* (SCALE), so 1.3 is 1300 and 0.85 is 850.  A float NaN is the value NaN; *)
(* every arithmetic operator propagates it and every comparison with it is *)
(* false, as in IEEE arithmetic.                                           *)
(***************************************************************************)
EXTENDS Integers, Sequences, FiniteSets, TLC

SCALE == 1000

\* IEEE NaN: a value outside every range the model computes in.
NaN == -2000000000

IsNaN(x) == x = NaN

\* ---- float arithmetic (fixed point, NaN-propagating) --------------------

FAdd(a, b) == IF IsNaN(a) \/ IsNaN(b) THEN NaN ELSE a + b

FSub(a, b) == IF IsNaN(a) \/ IsNaN(b) THEN NaN ELSE a - b

\* a * b of two fixed-point numbers, rounded toward zero
FMul(a, b) ==
    IF IsNaN(a) \/ IsNaN(b) THEN NaN
    ELSE IF a * b >= 0 THEN (a * b) \div SCALE ELSE -((-(a * b)) \div SCALE)

\* a / b of two fixed-point numbers, rounded toward zero (b # 0)
FDiv(a, b) ==
    IF IsNaN(a) \/ IsNaN(b) THEN NaN
    ELSE LET n == a * SCALE
             sgn == IF (n >= 0) = (b > 0) THEN 1 ELSE -1
             an == IF n >= 0 THEN n ELSE -n
             ab == IF b >= 0 THEN b ELSE -b
         IN sgn * (an \div ab)

\* IEEE comparisons: false as soon as one side is NaN
FLe(a, b) == ~IsNaN(a) /\ ~IsNaN(b) /\ a <= b

FLt(a, b) == ~IsNaN(a) /\ ~IsNaN(b) /\ a < b

\* np.clip / Series.clip: NaN stays NaN
Clip(x, lo, hi) == IF IsNaN(x) THEN NaN ELSE IF x < lo THEN lo ELSE IF x > hi THEN hi ELSE x

\* Python max(a, b): returns a unless b > a
PyMax(a, b) == IF FLt(a, b) THEN b ELSE a

\* ---- ROOConfig -----------------------------------------------------------

MIN_GAMES_FOR_PLAYER == 4
LOOKBACK_WEEKS == 8
MIN_STD == 3000
MAX_STD == 20000
MIN_SIGMA_LOG == 200
MAX_SIGMA_LOG == 1500
PERCENTILES == <<10, 15, 25, 50, 75, 85, 90, 95>>
FLOOR_PERCENTILE == 15
CEILING_PERCENTILE == 85
MATCHUP_VOL_MIN == 800
MATCHUP_VOL_MAX == 1300
EPS == 100
RANDOM_SEED == 42

\* ---- team names ----------------------------------------------------------


\* abbrev_to_full.get(team, team), restricted to the teams of the model
abbrev_to_full(t) == IF t = "KC" THEN "Chiefs" ELSE IF t = "BUF" THEN "Bills" ELSE t

\* ---- PROE ----------------------------------------------------------------

RECURSIVE SortedByWeekDesc(_)
\* team_proe.sort_values('week', ascending=False) for rows with distinct weeks
SortedByWeekDesc(rows) ==
    IF rows = {} THEN <<>>
    ELSE LET top == CHOOSE r \in rows : \A q \in rows : q.week <= r.week
         IN <<top>> \o SortedByWeekDesc(rows \ {top})

HeadN(s, n) == IF Len(s) <= n THEN s ELSE SubSeq(s, 1, n)

RECURSIVE DecayWeight(_)
\* 0.85 ** i
DecayWeight(i) == IF i = 0 THEN SCALE ELSE FMul(850, DecayWeight(i - 1))

RECURSIVE SumTo(_, _)
\* sum of f[1..n]
SumTo(f, n) == IF n = 0 THEN 0 ELSE FAdd(f[n], SumTo(f, n - 1))

\* calculate_weighted_proe(team_abbrev, weekly_proe, lookback_weeks)
calculate_weighted_proe(team_abbrev, proe_rows, lookback_weeks) ==
    LET team_full == abbrev_to_full(team_abbrev)
        team_rows == {r \in proe_rows : r.posteam = team_full}
        team_proe == HeadN(SortedByWeekDesc(team_rows), lookback_weeks)
        n == Len(team_proe)
        weights == [i \in 1..n |-> DecayWeight(i - 1)]
        total_weight == SumTo(weights, n)
        weighted == SumTo([i \in 1..n |-> FMul(team_proe[i].proe, weights[i])], n)
    IN IF team_rows = {} THEN 0
       ELSE IF total_weight = 0 THEN 0
       ELSE FDiv(weighted, total_weight)

\* ---- matchup multiplier --------------------------------------------------

\* row.get(col, default): the default only when the column is absent
RowGet(row, col, default) == IF col \in DOMAIN row THEN row[col] ELSE default

\* weekly_proe = None: no PROE table given
NoProe == [given |-> FALSE, rows |-> {}]

\* a PROE table with the given rows [posteam, week, proe]
ProeTable(rows) == [given |-> TRUE, rows |-> rows]

\* fault: the EPA metric itself is scaled, not its difference from the league average
epa_factor_raw(metric, league_avg) == FAdd(SCALE, FMul(metric, 2500))

\* lines 310-311 and 326-327: 1.0 + (metric - league average) * 2.5
epa_factor(metric, league_avg) == FAdd(SCALE, FMul(FSub(metric, league_avg), 2500))

\* lines 314-315 and 330-331: metric / league average, 1.0 for a zero average
ratio_factor(metric, league_avg) == IF league_avg # 0 THEN FDiv(metric, league_avg) ELSE SCALE

\* compute_matchup_multiplier, lines 303-361: the weighted score before the clip
matchup_score(row, league_avgs, proe_table) ==
    LET team_epa == RowGet(row, "Team_EPA_Play", league_avgs.EPA_Play)
        team_explosive == RowGet(row, "Team_Explosive_Play_Rate", league_avgs.Explosive_Play_Rate)
        team_ppd == RowGet(row, "Team_Points_Per_Drive", league_avgs.Points_Per_Drive)
        off_epa_factor == epa_factor(team_epa, league_avgs.EPA_Play)
        off_explosive_factor == ratio_factor(team_explosive, league_avgs.Explosive_Play_Rate)
        off_ppd_factor == ratio_factor(team_ppd, league_avgs.Points_Per_Drive)
        off_factor_raw == FDiv(FAdd(FAdd(off_epa_factor, off_explosive_factor), off_ppd_factor), 3000)
        opp_epa_allowed == RowGet(row, "Opp_EPA_Play_Allowed", league_avgs.EPA_Play_Allowed)
        opp_explosive_allowed == RowGet(row, "Opp_Explosive_Play_Rate_Allowed",
                                        league_avgs.Explosive_Play_Rate_Allowed)
        opp_ppd_allowed == RowGet(row, "Opp_Points_Per_Drive_Allowed",
                                  league_avgs.Points_Per_Drive_Allowed)
        def_epa_factor == epa_factor(opp_epa_allowed, league_avgs.EPA_Play_Allowed)
        def_explosive_factor == ratio_factor(opp_explosive_allowed,
                                             league_avgs.Explosive_Play_Rate_Allowed)
        def_ppd_factor == ratio_factor(opp_ppd_allowed, league_avgs.Points_Per_Drive_Allowed)
        def_factor_raw == FDiv(FAdd(FAdd(def_epa_factor, def_explosive_factor), def_ppd_factor), 3000)
        itt == RowGet(row, "ITT", league_avgs.Implied_Total)
        it_factor_raw == IF league_avgs.Implied_Total > 0
                         THEN FDiv(itt, league_avgs.Implied_Total)
                         ELSE SCALE
        proe_adjustment == IF proe_table.given /\ "Team" \in DOMAIN row
                           THEN FMul(calculate_weighted_proe(row["Team"], proe_table.rows, 8), 670)
                           ELSE 0
    IN FAdd(FAdd(FAdd(FAdd(SCALE, FMul(FSub(off_factor_raw, SCALE), 200)),
                      FMul(FSub(def_factor_raw, SCALE), 200)),
                 FMul(FSub(it_factor_raw, SCALE), 150)),
            proe_adjustment)

\* fault: the final np.clip is left out
compute_matchup_multiplier_noclip(row, league_avgs, proe_table) ==
    matchup_score(row, league_avgs, proe_table)

\* compute_matchup_multiplier(row, league_avgs, weekly_proe)
compute_matchup_multiplier(row, league_avgs, proe_table) ==
    Clip(matchup_score(row, league_avgs, proe_table), MATCHUP_VOL_MIN, MATCHUP_VOL_MAX)

\* ---- historical volatility ----------------------------------------------

\* integer quotient rounded toward zero (n > 0)
IDiv(a, n) == IF IsNaN(a) THEN NaN ELSE IF a >= 0 THEN a \div n ELSE -((-a) \div n)

RECURSIVE SqrtIter(_, _, _)
\* the largest r in lo..hi with r * r <= n
SqrtIter(n, lo, hi) ==
    IF lo >= hi THEN lo
    ELSE LET mid == (lo + hi + 1) \div 2
         IN IF mid * mid <= n THEN SqrtIter(n, mid, hi) ELSE SqrtIter(n, lo, mid - 1)

\* sqrt of a fixed-point number
FSqrt(x) == IF IsNaN(x) \/ x < 0 THEN NaN ELSE SqrtIter(x * SCALE, 0, 46000)

\* pandas aggregates skip missing (NaN) cells
Valid(pts) == SelectSeq(pts, LAMBDA x : ~IsNaN(x))

\* Series.count(): the number of non-missing points
Count(pts) == Len(Valid(pts))

\* Series.mean(): NaN for a series without points
Mean(pts) ==
    LET v == Valid(pts)
    IN IF Len(v) = 0 THEN NaN ELSE IDiv(SumTo(v, Len(v)), Len(v))

\* Series.std() (sample std, ddof = 1): NaN for fewer than two points
Std(pts) ==
    LET v == Valid(pts)
        m == Mean(pts)
        sq == [i \in 1..Len(v) |-> FMul(v[i] - m, v[i] - m)]
    IN IF Len(v) < 2 THEN NaN ELSE FSqrt(IDiv(SumTo(sq, Len(v)), Len(v) - 1))

RECURSIVE MaxOf(_, _)
\* the largest of the first n values of f (0 for n = 0)
MaxOf(f, n) ==
    IF n = 0 THEN 0 ELSE IF n = 1 THEN f[1]
    ELSE IF f[n] > MaxOf(f, n - 1) THEN f[n] ELSE MaxOf(f, n - 1)

RECURSIVE MinOf(_, _)
\* the smallest of the first n values of f (0 for n = 0)
MinOf(f, n) ==
    IF n = 0 THEN 0 ELSE IF n = 1 THEN f[1]
    ELSE IF f[n] < MinOf(f, n - 1) THEN f[n] ELSE MinOf(f, n - 1)

\* Series.max() / Series.min(): NaN for a series without points
SeriesMax(pts) == IF Count(pts) = 0 THEN NaN ELSE MaxOf(Valid(pts), Count(pts))

SeriesMin(pts) == IF Count(pts) = 0 THEN NaN ELSE MinOf(Valid(pts), Count(pts))

\* the column col of a table (a sequence of rows)
Column(table, col) == [i \in 1..Len(table) |-> table[i][col]]

\* weight_player = row['hist_games'] / MIN_GAMES_FOR_PLAYER
blend_weight(hist_games) == FDiv(hist_games * SCALE, MIN_GAMES_FOR_PLAYER * SCALE)

\* fault: the position weight is not the complement of the player weight
calc_effective_std_weight_slip(row) ==
    IF row.hist_games >= MIN_GAMES_FOR_PLAYER THEN row.hist_std_fpts
    ELSE IF row.hist_games >= 2
    THEN LET weight_player == blend_weight(row.hist_games)
             weight_pos == FAdd(SCALE, weight_player)
         IN FAdd(FMul(weight_player, row.hist_std_fpts), FMul(weight_pos, row.pos_std_fpts))
    ELSE FMul(row.pos_std_fpts, 1200)

\* fault: the low-sample branch starts below 3 games instead of below 2
calc_effective_std_lowsample3(row) ==
    IF row.hist_games >= MIN_GAMES_FOR_PLAYER THEN row.hist_std_fpts
    ELSE IF row.hist_games >= 3
    THEN LET weight_player == blend_weight(row.hist_games)
             weight_pos == FSub(SCALE, weight_player)
         IN FAdd(FMul(weight_player, row.hist_std_fpts), FMul(weight_pos, row.pos_std_fpts))
    ELSE FMul(row.pos_std_fpts, 1200)

\* calc_effective_std(row), nested in build_player_volatility
calc_effective_std(row) ==
    IF row.hist_games >= MIN_GAMES_FOR_PLAYER THEN row.hist_std_fpts
    ELSE IF row.hist_games >= 2
    THEN LET weight_player == blend_weight(row.hist_games)
             weight_pos == FSub(SCALE, weight_player)
         IN FAdd(FMul(weight_player, row.hist_std_fpts), FMul(weight_pos, row.pos_std_fpts))
    ELSE FMul(row.pos_std_fpts, 1200)

\* ---- names ---------------------------------------------------------------
\* A player name is a sequence of characters, so that the name
\* normalisation of build_distributions can be computed on it.

Name_AdotJ == <<"A", ".", "J", ".">>
Name_AJ == <<"A", "J">>
Name_Bo == <<"B", "o">>
Name_Cy == <<"C", "y">>
Name_cy == <<"c", "y">>
Name_Dee == <<"D", "e", "e">>
Name_Eli == <<"E", "l", "i">>
Name_Chiefs == <<"C", "h">>

\* name_map = dict(zip(player_mapping['Weekly_Stats'], player_mapping['DK_Salaries']))
\* with Series.map(name_map).fillna(original): one mapped spelling
name_map(n) == IF n = Name_cy THEN Name_Cy ELSE n

\* the group keys of the model in the order groupby sorts them
OffenseKeys ==
    << <<Name_AdotJ, "KC", "WR">>, <<Name_Bo, "KC", "WR">>, <<Name_Cy, "BUF", "QB">> >>

DstKeys == << <<Name_Chiefs, "KC">> >>

\* ---- build_player_volatility ---------------------------------------------

\* weekly_stats['Week'].max()
MaxWeek(table) == MaxOf(Column(table, "Week"), Len(table))

\* weekly_stats[weekly_stats['Week'] > lookback_cutoff] with the names mapped
RecentStats(table) ==
    LET lookback_cutoff == MaxWeek(table) - LOOKBACK_WEEKS
        recent == SelectSeq(table, LAMBDA r : r.Week > lookback_cutoff)
    IN [i \in 1..Len(recent) |-> [recent[i] EXCEPT !.Player = name_map(recent[i].Player)]]

\* position_agg: the position-level ['mean', 'std'] of DK_Points
PositionPoints(recent_stats, recent_dst, position) ==
    IF position = "DST" THEN Column(recent_dst, "DK_Points")
    ELSE Column(SelectSeq(recent_stats, LAMBDA r : r.Position = position), "DK_Points")

pos_std_fpts(recent_stats, recent_dst, position) ==
    Std(PositionPoints(recent_stats, recent_dst, position))

\* one row of all_players: the aggregate of one group, the fillna of the
\* single-game std, the merged position std and the effective std
VolatilityRow(key, pts, pos_std) ==
    LET agg == [Player |-> key[1], Team |-> key[2], Position |-> key[3],
                hist_games |-> Count(pts),
                hist_mean_fpts |-> Mean(pts),
                hist_std_fpts |-> IF IsNaN(Std(pts)) THEN FMul(Mean(pts), 500) ELSE Std(pts),
                hist_min_fpts |-> SeriesMin(pts),
                hist_max_fpts |-> SeriesMax(pts),
                pos_std_fpts |-> pos_std]
    IN [Player |-> agg.Player, Team |-> agg.Team, Position |-> agg.Position,
        hist_games |-> agg.hist_games,
        hist_mean_fpts |-> agg.hist_mean_fpts,
        hist_std_fpts |-> agg.hist_std_fpts,
        effective_std_fpts |-> calc_effective_std(agg),
        hist_cv |-> FDiv(agg.hist_std_fpts, FAdd(agg.hist_mean_fpts, 10)),
        hist_min_fpts |-> agg.hist_min_fpts,
        hist_max_fpts |-> agg.hist_max_fpts]

RECURSIVE GroupRows(_, _, _, _, _)
\* the rows of the groups keys[k..] that have at least one recent row
GroupRows(keys, k, rows, recent_stats, recent_dst) ==
    IF k > Len(keys) THEN <<>>
    ELSE LET key == IF Len(keys[k]) = 2 THEN <<keys[k][1], keys[k][2], "DST">> ELSE keys[k]
             grp == SelectSeq(rows, LAMBDA r : r.Player = key[1] /\ r.Team = key[2]
                                               /\ (Len(keys[k]) = 2 \/ r.Position = key[3]))
             pts == Column(grp, "DK_Points")
             rest == GroupRows(keys, k + 1, rows, recent_stats, recent_dst)
         IN IF Len(grp) = 0 THEN rest
            ELSE <<VolatilityRow(key, pts, pos_std_fpts(recent_stats, recent_dst, key[3]))>> \o rest

\* build_player_volatility(weekly_stats, weekly_dst_stats, player_mapping)
build_player_volatility(stats, dst_stats) ==
    LET recent_stats == RecentStats(stats)
        recent_dst == RecentStats(dst_stats)
    IN GroupRows(OffenseKeys, 1, recent_stats, recent_stats, recent_dst)
       \o GroupRows(DstKeys, 1, recent_dst, recent_stats, recent_dst)

\* ---- generate_roo_projections: the slate ---------------------------------

\* the index of the first row of table whose column col is val, 0 if none
FindRow(table, col, val) ==
    IF \E i \in 1..Len(table) : table[i][col] = val
    THEN CHOOSE i \in 1..Len(table) :
            table[i][col] = val /\ \A j \in 1..(i - 1) : table[j][col] # val
    ELSE 0

\* Series.mean() of one column of a table
ColumnMean(table, col) == Mean(Column(table, col))

\* compute_league_averages(sharp_offense, sharp_defense, matchups)
compute_league_averages(offense, defense, matchup_table) ==
    [EPA_Play |-> ColumnMean(offense, "EPA_Play"),
     Explosive_Play_Rate |-> ColumnMean(offense, "Explosive_Play_Rate"),
     Points_Per_Drive |-> ColumnMean(offense, "Points_Per_Drive"),
     EPA_Play_Allowed |-> ColumnMean(defense, "EPA_Play_Allowed"),
     Explosive_Play_Rate_Allowed |-> ColumnMean(defense, "Explosive_Play_Rate_Allowed"),
     Points_Per_Drive_Allowed |-> ColumnMean(defense, "Points_Per_Drive_Allowed"),
     Implied_Total |-> ColumnMean(matchup_table, "ITT")]

\* the value 0 that lines 760-766 put into a metric the left merge left empty
MissingMetricFill == 0

\* lines 692-766 for one slate row: the left merges with the matchup table and
\* the efficiency tables and the fillna of what they left empty
MergeSlateRow(p, matchup_table, offense, defense) ==
    LET m == FindRow(matchup_table, "Init", p.Team)
        Opp == IF m = 0 THEN "" ELSE matchup_table[m].Opp
        d == FindRow(defense, "Team", abbrev_to_full(Opp))
        o == FindRow(offense, "Team", abbrev_to_full(p.Team))
    IN [Player |-> p.Player, Team |-> p.Team, Position |-> p.Position, Salary |-> p.Salary,
        OWS_Median_Proj |-> p.OWS_Median_Proj,
        Opp |-> Opp,
        ITT |-> IF m = 0 THEN 24000 ELSE matchup_table[m].ITT,
        Spread |-> IF m = 0 THEN 0 ELSE matchup_table[m].Spread,
        Loc |-> IF m = 0 THEN "Home" ELSE matchup_table[m].Loc,
        Opp_EPA_Play_Allowed |-> IF d = 0 THEN MissingMetricFill ELSE defense[d].EPA_Play_Allowed,
        Opp_Explosive_Play_Rate_Allowed |->
            IF d = 0 THEN MissingMetricFill ELSE defense[d].Explosive_Play_Rate_Allowed,
        Opp_Points_Per_Drive_Allowed |->
            IF d = 0 THEN MissingMetricFill ELSE defense[d].Points_Per_Drive_Allowed,
        Team_EPA_Play |-> IF o = 0 THEN MissingMetricFill ELSE offense[o].EPA_Play,
        Team_Explosive_Play_Rate |-> IF o = 0 THEN MissingMetricFill ELSE offense[o].Explosive_Play_Rate,
        Team_Points_Per_Drive |-> IF o = 0 THEN MissingMetricFill ELSE offense[o].Points_Per_Drive]

\* lines 692-772: merge every row, keep the rows with a projection > 0 and
\* rename the position 'D' to 'DST'
BuildSlate(feed, matchup_table, offense, defense) ==
    LET merged == [i \in 1..Len(feed) |-> MergeSlateRow(feed[i], matchup_table, offense, defense)]
        kept == SelectSeq(merged, LAMBDA r : FLt(0, r.OWS_Median_Proj))
    IN [i \in 1..Len(kept) |->
          [kept[i] EXCEPT !.Position = IF kept[i].Position = "D" THEN "DST" ELSE kept[i].Position]]

\* ---- logarithm and exponential (fixed point) -----------------------------

RECURSIVE LnReduced(_, _)
\* ln of x (in 1/10000) in 1/10000: halve or double x into [0.75, 1.5), then
\* ln x = k ln 2 + 2 (z + z^3/3 + z^5/5 + z^7/7) with z = (x - 1) / (x + 1)
LnReduced(x, k) ==
    IF x >= 15000 THEN LnReduced(x \div 2, k + 1)
    ELSE IF x < 7500 THEN LnReduced(x * 2, k - 1)
    ELSE LET d == x - 10000
             z == IF d >= 0 THEN (d * 10000) \div (x + 10000) ELSE -(((-d) * 10000) \div (x + 10000))
             z2 == (z * z) \div 10000
             z3 == IDiv(z2 * z, 10000)
             z5 == IDiv(z3 * z2, 10000)
             z7 == IDiv(z5 * z2, 10000)
         IN k * 6931 + 2 * (z + IDiv(z3, 3) + IDiv(z5, 5) + IDiv(z7, 7))

\* np.log(x): NaN for NaN and for x < 0, -inf (here: a large negative) for 0
FLn(x) ==
    IF IsNaN(x) \/ x < 0 THEN NaN
    ELSE IF x = 0 THEN -1000000
    ELSE LET l == LnReduced(x * 10, 0) IN IDiv(l + (IF l >= 0 THEN 5 ELSE -5), 10)

\* ---- build_distributions -------------------------------------------------

VolatilityColumns ==
    {"hist_games", "hist_mean_fpts", "hist_std_fpts", "effective_std_fpts",
     "hist_cv", "hist_min_fpts", "hist_max_fpts"}

\* the volatility columns of a slate row the left merge found no record for
MissingVolatility == [c \in VolatilityColumns |-> NaN]

\* the volatility columns of one record of player_volatility
VolatilityOf(v) == [c \in VolatilityColumns |-> v[c]]

\* lines 409-413: current_week_df.merge(player_volatility, on=[Player, Team, Position], how='left')
PrimaryMerge(row, volatility) ==
    LET hits == SelectSeq(volatility, LAMBDA v : v.Player = row.Player /\ v.Team = row.Team
                                                 /\ v.Position = row.Position)
    IN IF Len(hits) = 0 THEN row @@ MissingVolatility ELSE row @@ VolatilityOf(hits[1])

\* str.lower() on the letters of the model's names
Lower(c) ==
    CASE c = "A" -> "a" [] c = "B" -> "b" [] c = "C" -> "c" [] c = "D" -> "d"
      [] c = "E" -> "e" [] c = "J" -> "j" [] OTHER -> c

\* name.lower().replace('.', '').replace("'", "").replace('-', '').replace(' ', '')
NormalizeName(name) ==
    LET lowered == [i \in 1..Len(name) |-> Lower(name[i])]
    IN SelectSeq(lowered, LAMBDA c : c \notin {".", "'", "-", " "})

\* lines 427-458, Strategy 1 for one row that misses its volatility: the only
\* record of the same team and position, or the first one whose normalised
\* name is the row's
Strategy1(row, volatility) ==
    LET candidates == SelectSeq(volatility, LAMBDA v : v.Team = row.Team /\ v.Position = row.Position)
        named == SelectSeq(candidates, LAMBDA v : NormalizeName(v.Player) = NormalizeName(row.Player))
    IN IF Len(candidates) = 1 THEN VolatilityOf(candidates[1]) @@ row
       ELSE IF Len(candidates) > 1 /\ Len(named) > 0 THEN VolatilityOf(named[1]) @@ row
       ELSE row

\* df['effective_std_fpts'].isna().sum()
MissingCount(rows) == Len(SelectSeq(rows, LAMBDA r : IsNaN(r.effective_std_fpts)))

\* lines 409-465: the primary merge and, where it left rows without
\* volatility, Strategy 1 on exactly those rows
MergeVolatility(slate, volatility) ==
    LET primary == [i \in 1..Len(slate) |-> PrimaryMerge(slate[i], volatility)]
    IN [i \in 1..Len(slate) |->
          IF IsNaN(primary[i].effective_std_fpts) THEN Strategy1(primary[i], volatility)
          ELSE primary[i]]

\* lines 416-487: what build_distributions prints about the merge
MergeReport(slate, volatility) ==
    LET primary == [i \in 1..Len(slate) |-> PrimaryMerge(slate[i], volatility)]
        missing_first == MissingCount(primary)
        missing_volatility == MissingCount(MergeVolatility(slate, volatility))
        matched == missing_first - missing_volatility
    IN (IF missing_first > 0 THEN << <<"missing after primary merge", missing_first>> >> ELSE <<>>)
       \o (IF missing_first > 0 /\ matched > 0 THEN << <<"Strategy 1 matched", matched>> >> ELSE <<>>)
       \o (IF missing_volatility > 0 THEN << <<"missing after merge", missing_volatility>> >>
           ELSE << <<"all matched", 0>> >>)

\* the default of pos_defaults.get(row['Position'], 5.0)
UnknownPositionStd == 5000

\* pos_defaults = player_volatility.groupby('Position')['effective_std_fpts'].mean()
\* and pos_defaults.get(position, 5.0)
pos_defaults_get(volatility, position) ==
    LET same == SelectSeq(volatility, LAMBDA v : v.Position = position)
    IN IF Len(same) = 0 THEN UnknownPositionStd ELSE Mean(Column(same, "effective_std_fpts"))

\* fault: the position default is given the 20% premium of the low-sample branch
get_effective_std_premium(row, volatility) ==
    IF ~IsNaN(row.effective_std_fpts) THEN row.effective_std_fpts
    ELSE FMul(pos_defaults_get(volatility, row.Position), 1200)

\* get_effective_std(row), nested in build_distributions
get_effective_std(row, volatility) ==
    IF ~IsNaN(row.effective_std_fpts) THEN row.effective_std_fpts
    ELSE pos_defaults_get(volatility, row.Position)

\* lines 508-511: effective std times multiplier, clipped to [MIN_STD, MAX_STD]
adj_std_of(effective_std, multiplier) == Clip(FMul(effective_std, multiplier), MIN_STD, MAX_STD)

\* calc_lognormal_params(row): mu_log
mu_log_of(median) == FLn(PyMax(median, EPS))

\* fault: sigma_log taken as the relative std itself, not as ln(1 + rel_std)
sigma_log_no_ln(median, adj_std) ==
    Clip(FDiv(adj_std, FAdd(PyMax(median, EPS), EPS)), MIN_SIGMA_LOG, MAX_SIGMA_LOG)

\* calc_lognormal_params(row): sigma_log
sigma_log_of(median, adj_std) ==
    LET median_proj == PyMax(median, EPS)
        rel_std == FDiv(adj_std, FAdd(median_proj, EPS))
    IN Clip(FLn(FAdd(SCALE, rel_std)), MIN_SIGMA_LOG, MAX_SIGMA_LOG)

\* lines 489-536 for one merged row
DistributionRow(row, volatility, league_avgs, proe_table) ==
    LET effective == get_effective_std(row, volatility)
        filled == [row EXCEPT !.effective_std_fpts = effective]
        multiplier == compute_matchup_multiplier(filled, league_avgs, proe_table)
        adj == adj_std_of(effective, multiplier)
    IN filled @@ [matchup_vol_multiplier |-> multiplier,
                  adj_std |-> adj,
                  mu_log |-> mu_log_of(row.OWS_Median_Proj),
                  sigma_log |-> sigma_log_of(row.OWS_Median_Proj, adj)]

\* build_distributions(current_week_df, player_volatility, league_avgs, weekly_proe)
build_distributions(slate, volatility, league_avgs, proe_table) ==
    LET merged == MergeVolatility(slate, volatility)
    IN [i \in 1..Len(slate) |-> DistributionRow(merged[i], volatility, league_avgs, proe_table)]

\* ---- the global random generator ----------------------------------------
\* numpy's global generator (MT19937) is modelled as a linear congruential
\* generator over RngStates; what matters is that seed() fixes the state and
\* that every draw is a function of the state and advances it.

RngModulus == 64

\* np.random.seed(seed)
SeedState(seed) == seed % RngModulus

\* the state after one draw
RngStep(state) == (state * 21 + 7) % RngModulus

RECURSIVE RngAfter(_, _)
\* the state after d draws
RngAfter(state, d) == IF d = 0 THEN state ELSE RngStep(RngAfter(state, d - 1))

\* the standard normal variate a draw in this state returns
NormalTable == <<-1645, -1036, -674, -253, 0, 253, 674, 1036, 1645>>

StandardNormal(state) == NormalTable[(state % Len(NormalTable)) + 1]

RECURSIVE ExpScale(_, _)
\* v * 2^k
ExpScale(v, k) ==
    IF k = 0 THEN v ELSE IF k > 0 THEN ExpScale(v * 2, k - 1) ELSE ExpScale(v \div 2, k + 1)

\* np.exp(x): e^x = 2^k e^r with r = x - k ln 2 in [0, ln 2) and the power
\* series of e^r
FExp(x) ==
    IF IsNaN(x) THEN NaN
    ELSE LET k == x \div 693
             r == x - k * 693
             t2 == (r * r) \div 2000
             t3 == (t2 * r) \div 3000
             t4 == (t3 * r) \div 4000
             t5 == (t4 * r) \div 5000
         IN ExpScale(SCALE + r + t2 + t3 + t4 + t5, k)

\* one variate of np.random.lognormal(mean, sigma): exp(mean + sigma * normal)
LognormalDraw(mu, sigma, state) == FExp(FAdd(mu, FMul(sigma, StandardNormal(state))))

\* ---- run_simulations -----------------------------------------------------

\* the number of Monte Carlo iterations (ROOConfig.N_SIMULATIONS, scaled down)
N_SIMULATIONS == 4

\* fault: the samples are drawn from the generator as the caller left it
sim_matrix_unseeded(players, rng_before) ==
    LET n == Len(players)
    IN [i \in 1..N_SIMULATIONS |-> [j \in 1..n |->
          LognormalDraw(players[j].mu_log, players[j].sigma_log,
                        RngAfter(rng_before, (i - 1) * n + j))]]

\* lines 559-575: seed the generator, then fill the matrix row by row, every
\* row with one lognormal draw per player in row order
sim_matrix_of(players, rng_before) ==
    LET n == Len(players)
        seeded == SeedState(RANDOM_SEED)
    IN [i \in 1..N_SIMULATIONS |-> [j \in 1..n |->
          LognormalDraw(players[j].mu_log, players[j].sigma_log,
                        RngAfter(seeded, (i - 1) * n + j))]]

\* the generator after run_simulations
rng_after_run(players) == RngAfter(SeedState(RANDOM_SEED), N_SIMULATIONS * Len(players))

RECURSIVE Insert(_, _)
\* x put into the ascending sequence s
Insert(s, x) ==
    IF Len(s) = 0 THEN <<x>>
    ELSE IF x <= s[1] THEN <<x>> \o s
    ELSE <<s[1]>> \o Insert(Tail(s), x)

RECURSIVE SortAsc(_)
\* s in ascending order
SortAsc(s) == IF Len(s) = 0 THEN <<>> ELSE Insert(SortAsc(Tail(s)), s[1])

\* np.percentile(a, q) of one column, linear interpolation: NaN as soon as
\* the column holds a NaN
Percentile(col, q) ==
    LET n == Len(col)
        sorted == SortAsc(col)
        pos == q * (n - 1) * 10
        lo == pos \div SCALE
        frac == pos % SCALE
    IN IF \E i \in 1..n : IsNaN(col[i]) THEN NaN
       ELSE IF lo + 1 >= n THEN sorted[n]
       ELSE sorted[lo + 1] + FMul(frac, sorted[lo + 2] - sorted[lo + 1])

\* sim_matrix[:, j]
MatrixColumn(matrix, j) == [i \in 1..Len(matrix) |-> matrix[i][j]]

\* lines 581-586: percentile_values[i, j] written to column Sim_P<PERCENTILES[i]>
\* of player j; Sim_P[pct] stands for the column 'Sim_P<pct>'
percentile_columns(matrix, j) ==
    [pct \in {PERCENTILES[i] : i \in 1..Len(PERCENTILES)} |->
        LET i == CHOOSE k \in 1..Len(PERCENTILES) : PERCENTILES[k] = pct
        IN Percentile(MatrixColumn(matrix, j), PERCENTILES[i])]

\* lines 581-596 for player j
ResultRow(row, matrix, j) ==
    LET Sim_P == percentile_columns(matrix, j)
        Floor_Proj == Sim_P[FLOOR_PERCENTILE]
        Ceiling_Proj == Sim_P[CEILING_PERCENTILE]
    IN [Sim_P |-> Sim_P, Floor_Proj |-> Floor_Proj, Ceiling_Proj |-> Ceiling_Proj,
        Volatility_Index |-> FDiv(FSub(Ceiling_Proj, Floor_Proj), FAdd(row.OWS_Median_Proj, 10))]
       @@ row

\* run_simulations(players_df): the table with the percentile columns
run_simulations(players, rng_before) ==
    LET matrix == sim_matrix_of(players, rng_before)
    IN [j \in 1..Len(players) |-> ResultRow(players[j], matrix, j)]

\* ---- input tables of the model ------------------------------------------

\* the largest slate of the model
MaxSlate == 2

\* the most draws other code takes from the global generator around a run
MaxOtherDraws == 1

\* the most runs of run_simulations on one table
MaxRuns == 2

\* one row of Weekly_Stats.csv
StatRow(player, team, position, game) ==
    [Player |-> player, Team |-> team, Position |-> position,
     Week |-> game[1], DK_Points |-> game[2]]

\* one row of Weekly_DST_Stats.csv
DstRow(player, team, game) ==
    [Player |-> player, Team |-> team, Week |-> game[1], DK_Points |-> game[2]]

\* game logs <<week, DK_Points>> of the receiver A.J.: no row, one to four
\* recent games, a quiet and a wild four-game log, a log whose older game is
\* outside the lookback window, and a row with an empty DK_Points cell
LogsAJ ==
    { <<>>,
      << <<10, 12000>> >>,
      << <<9, 10000>>, <<10, 14000>> >>,
      << <<8, 5000>>, <<9, 10000>>, <<10, 15000>> >>,
      << <<7, 8000>>, <<8, 10000>>, <<9, 12000>>, <<10, 10000>> >>,
      << <<7, 0>>, <<8, 40000>>, <<9, 0>>, <<10, 40000>> >>,
      << <<1, 30000>>, <<10, 12000>> >>,
      << <<10, NaN>> >> }

LogsBo == { <<>>, << <<9, 6000>>, <<10, 18000>> >> }

\* the only quarterback of the history: with a single game the position has
\* no sample std
LogsCy == { << <<10, 20000>> >>, << <<8, 18000>>, <<9, 22000>>, <<10, 26000>> >> }

LogsDst == { << <<9, 2000>>, <<10, 8000>> >> }

\* Weekly_Stats.csv for the three logs (the quarterback under the spelling
\* that Player_Mapping.csv maps)
WeeklyStats(la, lb, lc) ==
    [i \in 1..Len(la) |-> StatRow(Name_AdotJ, "KC", "WR", la[i])]
    \o [i \in 1..Len(lb) |-> StatRow(Name_Bo, "KC", "WR", lb[i])]
    \o [i \in 1..Len(lc) |-> StatRow(Name_cy, "BUF", "QB", lc[i])]

WeeklyDstStats(ld) == [i \in 1..Len(ld) |-> DstRow(Name_Chiefs, "KC", ld[i])]

OffenseRow(team, epa, explosive, ppd) ==
    [Team |-> team, EPA_Play |-> epa, Explosive_Play_Rate |-> explosive, Points_Per_Drive |-> ppd]

DefenseRow(team, epa, explosive, ppd) ==
    [Team |-> team, EPA_Play_Allowed |-> epa, Explosive_Play_Rate_Allowed |-> explosive,
     Points_Per_Drive_Allowed |-> ppd]

MatchupRow(init, opp, itt, spread, loc) ==
    [Init |-> init, Opp |-> opp, ITT |-> itt, Spread |-> spread, Loc |-> loc]

FullOffense == << OffenseRow("Chiefs", 100, 120, 2400), OffenseRow("Bills", 0, 80, 1600) >>

FullDefense == << DefenseRow("Chiefs", -20, 90, 1800), DefenseRow("Bills", 20, 110, 2200) >>

FullMatchups ==
    << MatchupRow("KC", "BUF", 26000, -3500, "Home"), MatchupRow("BUF", "KC", 22000, 3500, "Away") >>

\* sharp_offense.csv, sharp_defense.csv and Matchup.csv: all complete, an
\* offense table without the Chiefs, a defense table without the Bills, a
\* matchup table without the Chiefs
EfficiencyTables ==
    { <<FullOffense, FullDefense, FullMatchups>>,
      << << OffenseRow("Bills", 60, 110, 2200) >>, FullDefense, FullMatchups >>,
      << FullOffense, << DefenseRow("Chiefs", 10, 100, 2000) >>, FullMatchups >>,
      << FullOffense, FullDefense, << MatchupRow("BUF", "KC", 22000, 3500, "Away") >> >> }

\* weekly_proe_2025.csv: rows of the Chiefs, none of the Bills
ProeTables ==
    { ProeTable({ [posteam |-> "Chiefs", week |-> 9, proe |-> 60],
                  [posteam |-> "Chiefs", week |-> 10, proe |-> 90] }) }

SlateRow(player, team, position, salary, median) ==
    [Player |-> player, Team |-> team, Position |-> position, Salary |-> salary,
     OWS_Median_Proj |-> median]

\* the players the salary and projection feeds can hold
SlatePool ==
    << SlateRow(Name_AJ, "KC", "WR", 7000, 20000),
       SlateRow(Name_Bo, "KC", "WR", 5000, 8000),
       SlateRow(Name_Cy, "BUF", "QB", 8000, 25000),
       SlateRow(Name_Dee, "BUF", "RB", 4000, 50),
       SlateRow(Name_Eli, "BUF", "WR", 3000, 12000),
       SlateRow(Name_Chiefs, "KC", "D", 3200, 7000),
       SlateRow(Name_Dee, "KC", "TE", 2500, 0) >>

RECURSIVE PoolRows(_, _)
\* the rows of SlatePool with an index in ids, in pool order, from index k on
PoolRows(ids, k) ==
    IF k > Len(SlatePool) THEN <<>>
    ELSE (IF k \in ids THEN <<SlatePool[k]>> ELSE <<>>) \o PoolRows(ids, k + 1)

\* the slates of one to MaxSlate players
\* with at least one projection above 0
SlateFeeds ==
    { PoolRows(ids, 1) : ids \in { S \in SUBSET (1..Len(SlatePool)) :
                                     /\ Cardinality(S) >= 1
                                     /\ Cardinality(S) <= MaxSlate
                                     /\ \E k \in S : SlatePool[k].OWS_Median_Proj > 0 } }

\* ---- the pipeline generate_roo_projections -------------------------------

VARIABLES
    pc,                \* the step generate_roo_projections is at
    weekly_stats,      \* data['weekly_stats']
    weekly_dst_stats,  \* data['weekly_dst_stats']
    sharp_offense,     \* data['sharp_offense']
    sharp_defense,     \* data['sharp_defense']
    matchups,          \* data['matchups']
    weekly_proe,       \* data['weekly_proe']
    slate_feed,        \* salaries merged with projections, names mapped
    player_volatility, \* the table build_player_volatility returns
    current_week_df,   \* the slate with matchup and efficiency columns
    league_avgs,       \* compute_league_averages(...)
    players_df,        \* the table build_distributions returns, then run_simulations extends
    report,            \* what build_distributions printed about the merge
    rng,               \* the state of numpy's global random generator
    other_draws,       \* draws other code took from the global generator
    sim_matrix,        \* the last outcome matrix
    first_run,         \* the matrix and the table of the first run_simulations
    runs               \* how often run_simulations ran

pipeline_vars ==
    <<pc, weekly_stats, weekly_dst_stats, sharp_offense, sharp_defense, matchups, weekly_proe,
      slate_feed, player_volatility, current_week_df, league_avgs, players_df, report, rng,
      other_draws, sim_matrix, first_run, runs>>

NoLeagueAvgs ==
    [EPA_Play |-> NaN, Explosive_Play_Rate |-> NaN, Points_Per_Drive |-> NaN,
     EPA_Play_Allowed |-> NaN, Explosive_Play_Rate_Allowed |-> NaN,
     Points_Per_Drive_Allowed |-> NaN, Implied_Total |-> NaN]

NoRun == [done |-> FALSE, matrix |-> <<>>, table |-> <<>>]

PipelineInit ==
    /\ pc = "start"
    /\ weekly_stats = <<>>
    /\ weekly_dst_stats = <<>>
    /\ sharp_offense = <<>>
    /\ sharp_defense = <<>>
    /\ matchups = <<>>
    /\ weekly_proe = NoProe
    /\ slate_feed = <<>>
    /\ player_volatility = <<>>
    /\ current_week_df = <<>>
    /\ league_avgs = NoLeagueAvgs
    /\ players_df = <<>>
    /\ report = <<>>
    /\ rng = 0
    /\ other_draws = 0
    /\ sim_matrix = <<>>
    /\ first_run = NoRun
    /\ runs = 0

\* load_data(): the CSV files become tables
load_data ==
    /\ pc = "start"
    /\ \E la \in LogsAJ, lb \in LogsBo, lc \in LogsCy, ld \in LogsDst :
          /\ weekly_stats' = WeeklyStats(la, lb, lc)
          /\ weekly_dst_stats' = WeeklyDstStats(ld)
    /\ \E t \in EfficiencyTables :
          /\ sharp_offense' = t[1]
          /\ sharp_defense' = t[2]
          /\ matchups' = t[3]
    /\ weekly_proe' \in ProeTables
    /\ slate_feed' \in SlateFeeds
    /\ pc' = "loaded"
    /\ UNCHANGED <<player_volatility, current_week_df, league_avgs, players_df, report, rng,
                   other_draws, sim_matrix, first_run, runs>>

\* step 2 of generate_roo_projections: build_player_volatility
BuildPlayerVolatility ==
    /\ pc = "loaded"
    /\ player_volatility' = build_player_volatility(weekly_stats, weekly_dst_stats)
    /\ pc' = "volatility"
    /\ UNCHANGED <<weekly_stats, weekly_dst_stats, sharp_offense, sharp_defense, matchups,
                   weekly_proe, slate_feed, current_week_df, league_avgs, players_df, report, rng,
                   other_draws, sim_matrix, first_run, runs>>

\* step 3 of generate_roo_projections: the slate and the league averages
BuildCurrentWeek ==
    /\ pc = "volatility"
    /\ current_week_df' = BuildSlate(slate_feed, matchups, sharp_offense, sharp_defense)
    /\ league_avgs' = compute_league_averages(sharp_offense, sharp_defense, matchups)
    /\ pc' = "slate"
    /\ UNCHANGED <<weekly_stats, weekly_dst_stats, sharp_offense, sharp_defense, matchups,
                   weekly_proe, slate_feed, player_volatility, players_df, report, rng,
                   other_draws, sim_matrix, first_run, runs>>

\* step 4 of generate_roo_projections: build_distributions
BuildDistributions ==
    /\ pc = "slate"
    /\ players_df' = build_distributions(current_week_df, player_volatility, league_avgs, weekly_proe)
    /\ report' = MergeReport(current_week_df, player_volatility)
    /\ pc' = "distributions"
    /\ UNCHANGED <<weekly_stats, weekly_dst_stats, sharp_offense, sharp_defense, matchups,
                   weekly_proe, slate_feed, player_volatility, current_week_df, league_avgs, rng,
                   other_draws, sim_matrix, first_run, runs>>

\* other code of the process draws from the global generator (np.random.normal
\* and the like) before a run or between two runs
OtherDraw ==
    /\ pc \in {"distributions", "simulated"}
    /\ other_draws < MaxOtherDraws
    /\ rng' = RngStep(rng)
    /\ other_draws' = other_draws + 1
    /\ UNCHANGED <<pc, weekly_stats, weekly_dst_stats, sharp_offense, sharp_defense, matchups,
                   weekly_proe, slate_feed, player_volatility, current_week_df, league_avgs,
                   players_df, report, sim_matrix, first_run, runs>>

\* step 5 of generate_roo_projections: run_simulations, which may be run again
\* on the table it returned
RunSimulations ==
    /\ pc \in {"distributions", "simulated"}
    /\ runs < MaxRuns
    /\ runs' = runs + 1
    /\ sim_matrix' = sim_matrix_of(players_df, rng)
    /\ players_df' = run_simulations(players_df, rng)
    /\ rng' = rng_after_run(players_df)
    /\ first_run' = IF first_run.done THEN first_run
                    ELSE [done |-> TRUE, matrix |-> sim_matrix', table |-> players_df']
    /\ pc' = "simulated"
    /\ UNCHANGED <<weekly_stats, weekly_dst_stats, sharp_offense, sharp_defense, matchups,
                   weekly_proe, slate_feed, player_volatility, current_week_df, league_avgs,
                   report, other_draws>>

\* ---- compute_matchup_multiplier on its own -------------------------------

VARIABLES
    m_pc,      \* "input" before the call, "done" after it
    m_row,     \* the slate player row
    m_league,  \* the league averages
    m_proe,    \* the PROE table, or NoProe
    m_out      \* the multiplier returned

matchup_vars == <<m_pc, m_row, m_league, m_proe, m_out>>

\* league-average tables, with the zero averages the code guards
LeagueTables ==
    { [EPA_Play |-> 50, Explosive_Play_Rate |-> e, Points_Per_Drive |-> 2000,
       EPA_Play_Allowed |-> -20, Explosive_Play_Rate_Allowed |-> 90,
       Points_Per_Drive_Allowed |-> pa, Implied_Total |-> it] :
      e \in {0, 100}, pa \in {0, 1900}, it \in {0, 24000} }

\* how a metric of the row relates to its league average
MetricKinds == {"absent", "average", "low", "high"}

\* a column of the row: absent, at the league average, or far below / above it
MetricColumn(col, kind, average, low, high) ==
    IF kind = "absent" THEN [c \in {} |-> 0]
    ELSE [c \in {col} |-> IF kind = "average" THEN average ELSE IF kind = "low" THEN low ELSE high]

\* the row with one kind per group of metrics
MatchupInputRow(league, k_epa, k_off, k_depa, k_def, k_itt, with_team) ==
    MetricColumn("Team_EPA_Play", k_epa, league.EPA_Play, -100000, 100000)
    @@ MetricColumn("Team_Explosive_Play_Rate", k_off, league.Explosive_Play_Rate, -50000, 50000)
    @@ MetricColumn("Team_Points_Per_Drive", k_off, league.Points_Per_Drive, 0, 50000)
    @@ MetricColumn("Opp_EPA_Play_Allowed", k_depa, league.EPA_Play_Allowed, -100000, 100000)
    @@ MetricColumn("Opp_Explosive_Play_Rate_Allowed", k_def,
                    league.Explosive_Play_Rate_Allowed, 0, 50000)
    @@ MetricColumn("Opp_Points_Per_Drive_Allowed", k_def,
                    league.Points_Per_Drive_Allowed, -50000, 50000)
    @@ MetricColumn("ITT", k_itt, league.Implied_Total, 0, 200000)
    @@ (IF with_team THEN [c \in {"Team"} |-> "KC"] ELSE [c \in {} |-> 0])

\* no PROE table, a table without the team, tables with an extreme PROE
MatchupProeTables ==
    { NoProe,
      ProeTable({ [posteam |-> "Bills", week |-> 10, proe |-> 50] }),
      ProeTable({ [posteam |-> "Chiefs", week |-> 9, proe |-> 5000],
                  [posteam |-> "Chiefs", week |-> 10, proe |-> 3000] }),
      ProeTable({ [posteam |-> "Chiefs", week |-> 10, proe |-> -5000] }) }

MatchupIdle ==
    /\ m_pc = "idle"
    /\ m_row = [c \in {} |-> 0]
    /\ m_league = NoLeagueAvgs
    /\ m_proe = NoProe
    /\ m_out = NaN

MatchupInit ==
    /\ m_pc = "input"
    /\ m_league \in LeagueTables
    /\ \E k_epa \in MetricKinds, k_off \in MetricKinds, k_depa \in MetricKinds,
          k_def \in MetricKinds, k_itt \in MetricKinds, with_team \in BOOLEAN :
          m_row = MatchupInputRow(m_league, k_epa, k_off, k_depa, k_def, k_itt, with_team)
    /\ m_proe \in MatchupProeTables
    /\ m_out = NaN

\* the call compute_matchup_multiplier(row, league_avgs, weekly_proe)
ComputeMatchupMultiplier ==
    /\ m_pc = "input"
    /\ m_out' = compute_matchup_multiplier(m_row, m_league, m_proe)
    /\ m_pc' = "done"
    /\ UNCHANGED <<m_row, m_league, m_proe>>

\* ---- generate_roo_projections and the columns of its input files ----------

\* the columns generate_roo_projections and the functions it calls read, per
\* input file of load_data
ColumnsRead ==
    [Player_Mapping |-> {"Weekly_Stats", "DK_Salaries", "OneWeekSeason"},
     Weekly_Stats |-> {"Week", "Player", "Team", "Position", "DK_Points"},
     Weekly_DST_Stats |-> {"Week", "Player", "Team", "DK_Points"},
     Salaries_2025 |-> {"Week", "Name", "TeamAbbrev", "Salary"},
     ows_projections |-> {"Name", "Position", "ProjPts", "ProjOwn"},
     Matchup |-> {"Init", "Opp", "ITT", "Spread", "Loc"},
     sharp_defense |-> {"Team", "EPA_Play_Allowed", "Explosive Play Rate Allowed",
                        "Points Per Drive Allowed"},
     sharp_offense |-> {"Team", "EPA_Play", "Explosive Play Rate", "Points Per Drive"},
     weekly_proe_2025 |-> {"posteam", "week", "proe"}]

\* every file complete
NoColumn == [table |-> "", column |-> ""]

\* one column missing from one file
MissingColumns ==
    { [table |-> t, column |-> c] : t \in DOMAIN ColumnsRead, c \in UNION { ColumnsRead[u] : u \in DOMAIN ColumnsRead } }

\* the columns a file can miss
MissingChoices == { m \in MissingColumns : m.column \in ColumnsRead[m.table] } \cup {NoColumn}

\* the column name in the KeyError pandas raises when the column is missing:
\* the name the code asks for, which after the renames of lines 697, 725 and
\* 739 is not always the name in the file
KeyErrorName(m) ==
    CASE m.table = "Salaries_2025" /\ m.column = "TeamAbbrev" -> "Team"
      [] m.table = "sharp_defense" /\ m.column = "Team" -> "Opp_Full"
      [] m.table = "sharp_defense" /\ m.column = "EPA_Play_Allowed" -> "Opp_EPA_Play_Allowed"
      [] m.table = "sharp_defense" /\ m.column = "Explosive Play Rate Allowed"
            -> "Opp_Explosive_Play_Rate_Allowed"
      [] m.table = "sharp_defense" /\ m.column = "Points Per Drive Allowed"
            -> "Opp_Points_Per_Drive_Allowed"
      [] m.table = "sharp_offense" /\ m.column = "Team" -> "Team_Full"
      [] m.table = "sharp_offense" /\ m.column = "EPA_Play" -> "Team_EPA_Play"
      [] m.table = "sharp_offense" /\ m.column = "Explosive Play Rate" -> "Team_Explosive_Play_Rate"
      [] m.table = "sharp_offense" /\ m.column = "Points Per Drive" -> "Team_Points_Per_Drive"
      [] OTHER -> m.column

\* the step of generate_roo_projections that reads the column, "none" when no
\* step fails without it; proe_hit: the PROE file has rows of a slate team
FailingStep(m, proe_hit) ==
    CASE m = NoColumn -> "none"
      [] m.table \in {"Weekly_Stats", "Weekly_DST_Stats"} -> "volatility"
      [] m.table = "Player_Mapping" ->
            IF m.column = "OneWeekSeason" THEN "slate" ELSE "volatility"
      [] m.table = "Salaries_2025" -> IF m.column = "Salary" THEN "output" ELSE "slate"
      [] m.table \in {"ows_projections", "Matchup", "sharp_defense", "sharp_offense"} -> "slate"
      [] m.table = "weekly_proe_2025" ->
            IF m.column = "posteam" \/ proe_hit THEN "distributions" ELSE "none"

NoError == [raised |-> FALSE, type |-> "", column |-> "", table |-> ""]

\* the exception that ends the run: a KeyError, whose message holds a column
\* name and no file name
KeyError(m) == [raised |-> TRUE, type |-> "KeyError", column |-> KeyErrorName(m), table |-> ""]

VARIABLES
    c_pc,          \* the step generate_roo_projections has completed, or "failed"
    c_missing,     \* the column missing from an input file, or NoColumn
    c_proe_hit,    \* the PROE file has rows of a team of the slate
    c_error,       \* the exception that ended the run
    c_iterations   \* iterations of the loop of run_simulations executed

columns_vars == <<c_pc, c_missing, c_proe_hit, c_error, c_iterations>>

ColumnsIdle ==
    /\ c_pc = "idle"
    /\ c_missing = NoColumn
    /\ c_proe_hit = FALSE
    /\ c_error = NoError
    /\ c_iterations = 0

\* load_data has read the nine files; read_csv checks no column
ColumnsInit ==
    /\ c_pc = "loaded"
    /\ c_missing \in MissingChoices
    /\ c_proe_hit \in BOOLEAN
    /\ c_error = NoError
    /\ c_iterations = 0

\* one step of generate_roo_projections: it fails with the KeyError of the
\* missing column it reads, or completes
ColumnsStep(from, step, iterations) ==
    /\ c_pc = from
    /\ IF FailingStep(c_missing, c_proe_hit) = step
       THEN /\ c_pc' = "failed"
            /\ c_error' = KeyError(c_missing)
            /\ UNCHANGED c_iterations
       ELSE /\ c_pc' = step
            /\ c_iterations' = c_iterations + iterations
            /\ UNCHANGED c_error
    /\ UNCHANGED <<c_missing, c_proe_hit>>

\* line 622
ColumnsVolatility == ColumnsStep("loaded", "volatility", 0)

\* lines 624-808
ColumnsSlate == ColumnsStep("volatility", "slate", 0)

\* line 812
ColumnsDistributions == ColumnsStep("slate", "distributions", 0)

\* line 815: run_simulations reads only columns build_distributions wrote
ColumnsSimulate == ColumnsStep("distributions", "simulated", N_SIMULATIONS)

\* lines 817-842: the output columns, the sort and the save
ColumnsOutput == ColumnsStep("simulated", "output", 0)

\* ---- the lineup simulator from the Run Simulations button on --------------
\* (src/modules/sims_tool.py, lines 820-1022; scores and points in fixed point)

\* bound: the number of simulations n_sims of a run
MaxSims == 2

\* a row of players_df after the column mapping of lines 204-259
SimPlayer(name, position, team, salary, median) ==
    [Name |-> name, Position |-> position, Team |-> team, Salary |-> salary,
     median_proj |-> median]

\* players_df: the players of the ROO projections upload; the DST plays for
\* dst_team
SimPlayers(dst_team) ==
    << SimPlayer("Q", "QB", "KC", 7000, 20000),
       SimPlayer("R1", "RB", "KC", 6000, 15000),
       SimPlayer("R2", "RB", "BUF", 5500, 12000),
       SimPlayer("R3", "RB", "BUF", 4000, 5000),
       SimPlayer("W1", "WR", "KC", 6500, 14000),
       SimPlayer("W2", "WR", "BUF", 5000, 10000),
       SimPlayer("W3", "WR", "BUF", 4500, 9000),
       SimPlayer("W4", "WR", "KC", 3500, 7000),
       SimPlayer("T", "TE", "BUF", 4000, 8000),
       SimPlayer("D", "DST", dst_team, 3000, 6000) >>

\* set(players_df['Name'].values)
PlayerNames(players) == { players[i].Name : i \in 1..Len(players) }

\* the row of a player of players_df
PlayerRow(players, name) == players[CHOOSE i \in 1..Len(players) : players[i].Name = name]

\* lineups in the column order QB, RB1, RB2, WR1, WR2, WR3, TE, FLEX, DST
LineupR3 == <<"Q", "R1", "R2", "W1", "W2", "W3", "T", "R3", "D">>

LineupW4 == <<"Q", "R1", "R2", "W1", "W2", "W3", "T", "W4", "D">>

\* a lineup whose FLEX is not a player of players_df
LineupGhost == <<"Q", "R1", "R2", "W1", "W2", "W3", "T", "Ghost", "D">>

\* the lineups upload
UserLineupChoices ==
    { <<LineupW4>>, <<LineupW4, LineupR3>>, <<LineupGhost>>, <<LineupW4, LineupGhost>> }

\* what generate_field_lineups can return: lineups of names of players_df
FieldLineupChoices == { <<LineupR3>>, <<LineupR3, LineupW4>> }

\* the matchup upload: a row per team of the game KC - BUF
SimMatchups ==
    << [Team |-> "KC", Opp |-> "BUF", Total |-> 48000, Spread |-> -3500],
       [Team |-> "BUF", Opp |-> "KC", Total |-> 48000, Spread |-> 3500] >>

\* tuple(sorted([team, opp])) for the teams of the model
GameId(team, opp) == IF team = "BUF" \/ (team = "KC" /\ opp # "BUF") THEN <<team, opp>> ELSE <<opp, team>>

\* the offense stats of lines 444-454 for a pass-heavy team
PassHeavyOffense ==
    [avg_pass_att |-> 36000, avg_rush_att |-> 21000, avg_pass_yds |-> 270000,
     avg_rush_td |-> 600, avg_pass_td |-> 2100]

\* the defense stats of lines 461-471 for a defense that allows little
StingyDefense == [opp_avg_pass_yds |-> 190000, opp_avg_rush_yds |-> 95000]

NoStats == [x \in {} |-> 0]

\* team_env, lines 417-482, for a matchup table without metric columns (every
\* z-score 0.0) ; with_stats: the optional team uploads have a row for KC
team_env_of(matchup_df, with_stats) ==
    [t \in { matchup_df[i].Team : i \in 1..Len(matchup_df) } |->
        LET row == matchup_df[CHOOSE i \in 1..Len(matchup_df) : matchup_df[i].Team = t]
        IN [opp |-> row.Opp,
            total |-> row.Total,
            spread |-> row.Spread,
            base_points |-> IF row.Spread # 0 THEN (row.Total + row.Spread) \div 2
                            ELSE row.Total \div 2,
            ovr_matchup_strength |-> 0,
            offense_stats |-> IF with_stats /\ t = "KC" THEN PassHeavyOffense ELSE NoStats,
            defense_vs_stats |-> IF with_stats /\ t = "KC" THEN StingyDefense ELSE NoStats]]

\* dict.get(key, default) of a stats record
StatGet(stats, key, default) == IF key \in DOMAIN stats THEN stats[key] ELSE default

\* adjustment *= factor
Scaled(x, factor) == (x * factor) \div SCALE

\* apply_team_adjustments, lines 537-615
apply_team_adjustments(player_row, base_score, team_env) ==
    IF player_row.Team \notin DOMAIN team_env THEN base_score
    ELSE
    LET env == team_env[player_row.Team]
        offense_stats == env.offense_stats
        defense_vs_stats == env.defense_vs_stats
        position == player_row.Position
        has_off == DOMAIN offense_stats # {}
        has_def == DOMAIN defense_vs_stats # {}
        pass_att == StatGet(offense_stats, "avg_pass_att", 30000)
        pass_td == StatGet(offense_stats, "avg_pass_td", 1500)
        rush_att == StatGet(offense_stats, "avg_rush_att", 25000)
        rush_td == StatGet(offense_stats, "avg_rush_td", 1000)
        pass_yds == StatGet(offense_stats, "avg_pass_yds", 220000)
        opp_pass_yds == StatGet(defense_vs_stats, "opp_avg_pass_yds", 220000)
        opp_rush_yds == StatGet(defense_vs_stats, "opp_avg_rush_yds", 115000)
        step(a, hi_cond, hi, lo_cond, lo) ==
            IF hi_cond THEN Scaled(a, hi) ELSE IF lo_cond THEN Scaled(a, lo) ELSE a
        adjustment ==
            IF position = "QB" /\ has_off
            THEN step(step(SCALE, pass_att > 35000, 1050, pass_att < 27000, 950),
                      pass_td > 2000, 1080, pass_td < 1000, 920)
            ELSE IF position = "RB" /\ has_off
            THEN step(step(SCALE, rush_att > 28000, 1080, rush_att < 22000, 920),
                      rush_td > 1300, 1050, rush_td < 700, 950)
            ELSE IF position \in {"WR", "TE"} /\ has_off
            THEN step(step(SCALE, pass_att > 35000, 1060, pass_att < 27000, 940),
                      pass_yds > 260000, 1040, pass_yds < 200000, 960)
            ELSE IF position = "DST" /\ has_def
            THEN step(SCALE, opp_pass_yds < 200000 /\ opp_rush_yds < 100000, 1150,
                      opp_pass_yds > 260000 \/ opp_rush_yds > 140000, 850)
            ELSE SCALE
    IN IF ~has_off /\ ~has_def THEN base_score ELSE Scaled(base_score, adjustment)

\* the draws rng.normal(total_base, total_sd) and rng.normal(spread_base,
\* spread_sd) of one game: the projected game, a shoot-out, a low total and a
\* slightly raised total
EnvDraws ==
    { [total |-> 48000, spread |-> 3500], [total |-> 60000, spread |-> -6000],
      [total |-> 40000, spread |-> 10000], [total |-> 52000, spread |-> 0] }

\* Python max(a, b) of two numbers
Max2(a, b) == IF b > a THEN b ELSE a

\* alpha_matchup, the default of the slider of line 182
alpha_matchup == 50

\* the environment of one game in build_env_state, lines 631-677, for the
\* value alpha of the slider
game_env_alpha(team_env, game_id, draw, alpha) ==
    LET t1 == game_id[1]
        t2 == game_id[2]
        t1_base == team_env[t1].base_points
        t2_base == team_env[t2].base_points
        total_sim == Max2(draw.total, 10000)
        spread_sim == draw.spread
        t1_raw == Scaled((total_sim + spread_sim) \div 2,
                         SCALE + Scaled(alpha, team_env[t1].ovr_matchup_strength))
        t2_raw == Scaled((total_sim - spread_sim) \div 2,
                         SCALE + Scaled(alpha, team_env[t2].ovr_matchup_strength))
        renorm == (total_sim * SCALE) \div Max2(t1_raw + t2_raw, SCALE)
        t1_points_sim == Scaled(t1_raw, renorm)
        t2_points_sim == Scaled(t2_raw, renorm)
    IN [points |-> [t \in {t1, t2} |-> IF t = t1 THEN t1_points_sim ELSE t2_points_sim],
        total_sim |-> total_sim,
        spread_sim |-> spread_sim,
        team_scoring_mult |->
            [t \in {t1, t2} |-> IF t = t1 THEN (t1_points_sim * SCALE) \div Max2(t1_base, SCALE)
                                ELSE (t2_points_sim * SCALE) \div Max2(t2_base, SCALE)]]

\* the environment of one game with the default of the slider
game_env(team_env, game_id, draw) == game_env_alpha(team_env, game_id, draw, alpha_matchup)

\* the unique games of the matchup table, line 627-629
UniqueGames(matchup_df) ==
    { GameId(matchup_df[i].Team, matchup_df[i].Opp) : i \in 1..Len(matchup_df) }

\* build_env_state, lines 621-679, with the draws of each game
build_env_state(team_env, matchup_df, draws) ==
    [g \in UniqueGames(matchup_df) |-> game_env(team_env, g, draws[g])]

\* what the draw of sample_player_score is for a QB: a bust, the median or a boom
SampleKinds == {"bust", "median", "boom"}

\* sample_player_score, lines 490-535, by the kind of the draw: a bust, the
\* median or a boom for a QB, the median for every other position
sample_player_score(player_row, kind) ==
    IF player_row.Position # "QB" \/ kind = "median" THEN player_row.median_proj
    ELSE IF kind = "bust" THEN Scaled(player_row.median_proj, 400)
    ELSE Scaled(player_row.median_proj, 1600)

\* rng.uniform(lo, hi): one end of the interval
UniformEnds == {"lo", "hi"}

Uniform(lo, hi, end) == IF end = "lo" THEN lo ELSE hi

\* the draws of one rule in one iteration, one per player the rule changes:
\* all at the low end or all at the high end of the interval
RuleDraws(changed) == { [n \in changed |-> end] : end \in UniformEnds }

\* the double-up payout structure of lines 75-81 for an entry fee of 3
entry_fee == 3000

payout_structure(field_size) ==
    [rank \in 1..((field_size * 444) \div SCALE) |-> Scaled(entry_fee, 1800)]

\* the settings of a run: the team of the DST of players_df (NYJ has no row in
\* the matchup table), the correlations checkbox, whether the optional team
\* uploads have a row for KC, and the contest field size
SimSettings ==
    { [dst_team |-> "NYJ", use_correlations |-> TRUE, with_stats |-> TRUE, field_size |-> 10],
      [dst_team |-> "NYJ", use_correlations |-> TRUE, with_stats |-> FALSE, field_size |-> 2],
      [dst_team |-> "KC", use_correlations |-> TRUE, with_stats |-> FALSE, field_size |-> 10],
      [dst_team |-> "KC", use_correlations |-> FALSE, with_stats |-> TRUE, field_size |-> 2],
      [dst_team |-> "NYJ", use_correlations |-> FALSE, with_stats |-> FALSE, field_size |-> 10] }


VARIABLES
    s_pc,             \* "ready", "running", "stopped" (st.stop), "error" (except), "done"
    s_in,             \* players, lineups upload and sidebar settings of the run
    s_field,          \* field_lineups
    s_missing,        \* missing_players reported by the validation
    s_sim_idx,        \* completed iterations of the simulation loop
    s_step,           \* the last step of the current iteration
    s_env,            \* env_state of the current iteration
    s_scores,         \* sim_scores_array, by player name
    s_lineup_scores,  \* field_scores and user_scores of the current iteration
    s_results,        \* sim_results
    s_trace,          \* the steps of the current iteration, in the order executed
    s_error           \* the exception caught at line 1151

sims_vars == <<s_pc, s_in, s_field, s_missing, s_sim_idx, s_step, s_env, s_scores,
               s_lineup_scores, s_results, s_trace, s_error>>

NoEnv == [g \in {} |-> 0]

NoScores == [n \in {} |-> 0]

NoLineupScores == [field |-> <<>>, user |-> <<>>]

SimsIdle ==
    /\ s_pc = "idle"
    /\ s_in = [x \in {} |-> 0]
    /\ s_field = <<>>
    /\ s_missing = {}
    /\ s_sim_idx = 0
    /\ s_step = "top"
    /\ s_env = NoEnv
    /\ s_scores = NoScores
    /\ s_lineup_scores = NoLineupScores
    /\ s_results = <<>>
    /\ s_trace = <<>>
    /\ s_error = ""

\* the page after data processing, before the button of line 820 is pressed
SimsInit ==
    /\ s_pc = "ready"
    /\ \E lineups \in UserLineupChoices, settings \in SimSettings :
          s_in = [user_lineups |-> lineups] @@ settings
    /\ s_field = <<>>
    /\ s_missing = {}
    /\ s_sim_idx = 0
    /\ s_step = "top"
    /\ s_env = NoEnv
    /\ s_scores = NoScores
    /\ s_lineup_scores = NoLineupScores
    /\ s_results = <<>>
    /\ s_trace = <<>>
    /\ s_error = ""

sim_players_df == SimPlayers(s_in.dst_team)

sim_team_env == team_env_of(SimMatchups, s_in.with_stats)

\* all_lineup_players, lines 842-846
all_lineup_players(field_lineups, user_lineups) ==
    UNION ({ { field_lineups[i][k] : k \in 1..Len(field_lineups[i]) } : i \in 1..Len(field_lineups) }
           \cup { { user_lineups[i][k] : k \in 1..Len(user_lineups[i]) } : i \in 1..Len(user_lineups) })

\* fault: the validation of lines 848-855 finds nothing
missing_players_unchecked(lineup_players, players) == {}

\* missing_players, line 849
missing_players(lineup_players, players) == lineup_players \ PlayerNames(players)

\* the names of players_in_lineups, line 858
players_in_lineups == all_lineup_players(s_field, s_in.user_lineups) \cap PlayerNames(sim_players_df)

\* team_to_games.get(team), lines 863-868: the game of a team, <<>> for None
team_game(team) ==
    IF \E i \in 1..Len(SimMatchups) : SimMatchups[i].Team = team
    THEN LET row == SimMatchups[CHOOSE i \in 1..Len(SimMatchups) : SimMatchups[i].Team = team]
         IN GameId(row.Team, row.Opp)
    ELSE <<>>

\* game_id and game_id in env_state
HasGame(name) ==
    LET g == team_game(PlayerRow(sim_players_df, name).Team)
    IN g # <<>> /\ g \in DOMAIN s_env

\* env_state[game_id]['team_scoring_mult'][player_team]
TeamMult(name) ==
    LET team == PlayerRow(sim_players_df, name).Team
    IN s_env[team_game(team)].team_scoring_mult[team]

\* lines 820-907: the field is generated, the lineups are validated and the
\* lookups of the loop are built
RunButton ==
    /\ s_pc = "ready"
    /\ \E field \in FieldLineupChoices :
          LET names == all_lineup_players(field, s_in.user_lineups)
              missing == missing_players(names, sim_players_df)
          IN /\ s_field' = field
             /\ IF missing # {}
                THEN /\ s_pc' = "stopped"
                     /\ s_missing' = missing
                     /\ UNCHANGED <<s_results, s_error>>
                ELSE IF ~(names \subseteq PlayerNames(sim_players_df))
                THEN \* player_to_id[p] of lines 871-872
                     /\ s_pc' = "error"
                     /\ s_error' = "KeyError"
                     /\ UNCHANGED <<s_missing, s_results>>
                ELSE /\ s_pc' = "running"
                     /\ s_results' = [i \in 1..Len(s_in.user_lineups) |-> <<>>]
                     /\ UNCHANGED <<s_missing, s_error>>
    /\ UNCHANGED <<s_in, s_sim_idx, s_step, s_env, s_scores, s_lineup_scores, s_trace>>

\* line 919: build_env_state with the draws of this iteration
IterEnv ==
    /\ s_pc = "running"
    /\ s_step = "top"
    /\ s_sim_idx < MaxSims
    /\ \E draws \in [UniqueGames(SimMatchups) -> EnvDraws] :
          s_env' = build_env_state(sim_team_env, SimMatchups, draws)
    /\ s_step' = "env"
    /\ s_trace' = <<"env">>
    /\ s_scores' = NoScores
    /\ s_lineup_scores' = NoLineupScores
    /\ UNCHANGED <<s_pc, s_in, s_field, s_missing, s_sim_idx, s_results, s_error>>

\* lines 922-942: every player of the lineups is sampled, adjusted for its
\* team and multiplied by the scoring multiplier of its team
IterSample ==
    /\ s_pc = "running"
    /\ s_step = "env"
    /\ \E kind \in SampleKinds :
          s_scores' =
             [n \in PlayerNames(sim_players_df) |->
                IF n \notin players_in_lineups THEN 0
                ELSE LET player_row == PlayerRow(sim_players_df, n)
                         base_score == apply_team_adjustments(
                                          player_row, sample_player_score(player_row, kind),
                                          sim_team_env)
                     IN IF HasGame(n) THEN Scaled(base_score, TeamMult(n)) ELSE base_score]
    /\ s_step' = "sampled"
    /\ s_trace' = s_trace \o <<"sample", "team_adjustment", "environment">>
    /\ UNCHANGED <<s_pc, s_in, s_field, s_missing, s_sim_idx, s_env, s_lineup_scores,
                   s_results, s_error>>

\* qb_to_pass_catchers, lines 875-894: the WR and TE of the lineups on the team
\* of a QB of the lineups
PassCatchers(qb) ==
    { n \in players_in_lineups :
         /\ PlayerRow(sim_players_df, n).Position \in {"WR", "TE"}
         /\ PlayerRow(sim_players_df, n).Team = PlayerRow(sim_players_df, qb).Team }

LineupQBs == { n \in players_in_lineups : PlayerRow(sim_players_df, n).Position = "QB" }

\* fault: the boom starts at the median
QbBoomsAtMedian(qb) == s_scores[qb] * SCALE > 1000 * PlayerRow(sim_players_df, qb).median_proj

\* qb_score > 1.5 * qb_median
QbBooms(qb) == s_scores[qb] * SCALE > 1500 * PlayerRow(sim_players_df, qb).median_proj

\* qb_score < 0.5 * qb_median
QbBusts(qb) == s_scores[qb] * SCALE < 500 * PlayerRow(sim_players_df, qb).median_proj

\* lines 946-961: the QB - pass catcher rule
IterQbRule ==
    /\ s_pc = "running"
    /\ s_step = "sampled"
    /\ s_in.use_correlations
    /\ LET boosted == UNION { PassCatchers(qb) : qb \in { q \in LineupQBs : QbBooms(q) } }
           cut == UNION { PassCatchers(qb) : qb \in { q \in LineupQBs : ~QbBooms(q) /\ QbBusts(q) } }
       IN \E end \in RuleDraws(boosted \cup cut) :
             s_scores' = [n \in DOMAIN s_scores |->
                            IF n \in boosted THEN Scaled(s_scores[n], Uniform(1100, 1300, end[n]))
                            ELSE IF n \in cut THEN Scaled(s_scores[n], Uniform(700, 900, end[n]))
                            ELSE s_scores[n]]
    /\ s_step' = "qb"
    /\ s_trace' = Append(s_trace, "qb_pass_catcher")
    /\ UNCHANGED <<s_pc, s_in, s_field, s_missing, s_sim_idx, s_env, s_lineup_scores,
                   s_results, s_error>>

\* apply_correlations, lines 738-745: what its RB rule does to an RB whose team
\* has the scoring multiplier team_mult (the function is defined at line 685
\* and called nowhere)
apply_correlations_rb(team_mult) ==
    IF team_mult > 1200 THEN "boost" ELSE IF team_mult < 800 THEN "penalty" ELSE "unchanged"

\* the players of the lineups of a position that have a game in env_state
WithGame(position) ==
    { n \in players_in_lineups : PlayerRow(sim_players_df, n).Position = position /\ HasGame(n) }

\* lines 963-972: the RB - team scoring rule
IterRbRule ==
    /\ s_pc = "running"
    /\ s_step = "qb"
    /\ LET boosted == { n \in WithGame("RB") : TeamMult(n) > 1100 }
           cut == { n \in WithGame("RB") : ~(TeamMult(n) > 1100) /\ TeamMult(n) < 900 }
       IN \E end \in RuleDraws(boosted \cup cut) :
             s_scores' = [n \in DOMAIN s_scores |->
                            IF n \in boosted THEN Scaled(s_scores[n], Uniform(1050, 1150, end[n]))
                            ELSE IF n \in cut THEN Scaled(s_scores[n], Uniform(850, 950, end[n]))
                            ELSE s_scores[n]]
    /\ s_step' = "rb"
    /\ s_trace' = Append(s_trace, "rb_team_scoring")
    /\ UNCHANGED <<s_pc, s_in, s_field, s_missing, s_sim_idx, s_env, s_lineup_scores,
                   s_results, s_error>>

\* lines 974-990: the DST - spread rule; the record of a game in env_state has
\* no key 'spread' (build_env_state stores 'spread_sim'), so line 977 raises a
\* KeyError for the first DST with a game, and the except of line 1151 ends
\* the run
IterDstRule ==
    /\ s_pc = "running"
    /\ s_step = "rb"
    /\ IF WithGame("DST") # {}
       THEN /\ s_pc' = "error"
            /\ s_error' = "KeyError: 'spread'"
            /\ UNCHANGED <<s_step, s_trace>>
       ELSE /\ s_step' = "dst"
            /\ s_trace' = Append(s_trace, "dst_spread")
            /\ UNCHANGED <<s_pc, s_error>>
    /\ UNCHANGED <<s_in, s_field, s_missing, s_sim_idx, s_env, s_scores, s_lineup_scores,
                   s_results>>

\* sim_scores_array[lineup_ids].sum(): the sum of the scores of a lineup
RECURSIVE LineupScore(_, _)
LineupScore(scores, lineup) ==
    IF lineup = <<>> THEN 0 ELSE scores[Head(lineup)] + LineupScore(scores, Tail(lineup))

\* lines 994-997: the scores of the field lineups and of the user lineups
IterScore ==
    /\ s_pc = "running"
    /\ \/ s_step = "dst"
       \/ s_step = "sampled" /\ ~s_in.use_correlations
    /\ s_lineup_scores' =
          [field |-> [i \in 1..Len(s_field) |-> LineupScore(s_scores, s_field[i])],
           user |-> [i \in 1..Len(s_in.user_lineups) |->
                        LineupScore(s_scores, s_in.user_lineups[i])]]
    /\ s_step' = "scored"
    /\ s_trace' = Append(s_trace, "lineup_scores")
    /\ UNCHANGED <<s_pc, s_in, s_field, s_missing, s_sim_idx, s_env, s_scores, s_results,
                   s_error>>

\* rank(ascending=False, method='min') of a score among all scores
RankOf(score, all_scores) ==
    1 + Cardinality({ k \in 1..Len(all_scores) : all_scores[k] > score })

\* line 1009: int(rank * (field_size / (len(field_lineups) + len(user_lineups))))
scaled_rank(rank, field_size, n_lineups) == (rank * field_size) \div n_lineups

\* payout_structure.get(scaled_rank, 0)
payout_of(rank, field_size) ==
    IF rank \in DOMAIN payout_structure(field_size) THEN payout_structure(field_size)[rank] ELSE 0

\* lines 1000-1020: the lineups are ranked and every user lineup gets the
\* result of the iteration
IterRank ==
    /\ s_pc = "running"
    /\ s_step = "scored"
    /\ LET all_scores == s_lineup_scores.field \o s_lineup_scores.user
           result(i) ==
              LET score == s_lineup_scores.user[i]
                  rank == scaled_rank(RankOf(score, all_scores), s_in.field_size, Len(all_scores))
              IN [score |-> score, rank |-> rank,
                  profit |-> payout_of(rank, s_in.field_size) - entry_fee]
       IN s_results' = [i \in 1..Len(s_results) |-> Append(s_results[i], result(i))]
    /\ s_sim_idx' = s_sim_idx + 1
    /\ s_step' = "top"
    /\ s_trace' = Append(s_trace, "rank_payout")
    /\ UNCHANGED <<s_pc, s_in, s_field, s_missing, s_env, s_scores, s_lineup_scores, s_error>>

\* lines 1022-1149: the loop is over and the results are shown
ShowResults ==
    /\ s_pc = "running"
    /\ s_step = "top"
    /\ s_sim_idx = MaxSims
    /\ s_pc' = "done"
    /\ UNCHANGED <<s_in, s_field, s_missing, s_sim_idx, s_step, s_env, s_scores,
                   s_lineup_scores, s_results, s_trace, s_error>>

\* ---- the persisted output (generate_roo_projections, steps 6 and 7) --------

\* the largest output table of the model
MaxOutputRows == 3

\* Position values of a salaries file: the five of the order and one outside it
OutputPositions == {"QB", "RB", "WR", "TE", "DST", "K"}
OutputSalaries == {3000, 5000}

\* line 835
position_order == [QB |-> 1, RB |-> 2, WR |-> 3, TE |-> 4, DST |-> 5]

\* line 836: Series.map leaves NaN for a value that is no key of the dict
pos_sort(Position) ==
    IF Position \in DOMAIN position_order THEN position_order[Position] ELSE NaN

\* both keys in ascending order
ascending_both == <<TRUE, TRUE>>

\* line 837: ascending=[True, False]
ascending == <<TRUE, FALSE>>

\* the order of one sort key; NaN keys are last whatever the direction
KeyBefore(x, y, asc) ==
    IF IsNaN(x) \/ IsNaN(y) THEN ~IsNaN(x) /\ IsNaN(y)
    ELSE IF asc THEN x < y ELSE x > y

\* line 837: the lexicographic order of ['pos_sort', 'Salary']; rows with
\* equal keys keep the order of the table
RowBefore(a, b) ==
    IF pos_sort(a.Position) # pos_sort(b.Position)
    THEN KeyBefore(pos_sort(a.Position), pos_sort(b.Position), ascending[1])
    ELSE IF a.Salary # b.Salary THEN KeyBefore(a.Salary, b.Salary, ascending[2])
    ELSE a.index < b.index

\* lines 836-838: DataFrame.sort_values; the pos_sort column is dropped again
sort_values(df) ==
    LET n == Len(df)
        p == CHOOSE f \in [1..n -> 1..n] :
                 \A i, j \in 1..n : i < j => RowBefore(df[f[i]], df[f[j]])
    IN [i \in 1..n |-> df[p[i]]]

\* the rows of results_df in the order of the salaries file
OutputTables ==
    UNION {[1..n -> [Position : OutputPositions, Salary : OutputSalaries]] :
               n \in 0..MaxOutputRows}

VARIABLES o_pc, o_results_df, o_output_df
output_vars == <<o_pc, o_results_df, o_output_df>>

OutputIdle == o_pc = "idle" /\ o_results_df = <<>> /\ o_output_df = <<>>

OutputInit ==
    /\ o_pc = "simulated"
    /\ o_results_df \in OutputTables
    /\ o_output_df = <<>>

\* lines 832-842: select the columns, sort and write the file
SaveOutput ==
    /\ o_pc = "simulated"
    /\ o_output_df' = sort_values([i \in 1..Len(o_results_df) |->
                           [index |-> i, Position |-> o_results_df[i].Position,
                            Salary |-> o_results_df[i].Salary]])
    /\ o_pc' = "saved"
    /\ UNCHANGED o_results_df

\* ---- calculate_weighted_proe on a season of PROE rows ----------------------

\* the last week of the PROE file of the model
MaxProeWeek == 10

\* the proe column of the Chiefs' row of a week
ProeOfWeek(week) == 100 * week - 500

\* weekly_proe_2025.csv: one row of the Chiefs for each week they played
ProeSeasons ==
    { {[posteam |-> "Chiefs", week |-> w, proe |-> ProeOfWeek(w)] : w \in played} :
          played \in SUBSET (1..MaxProeWeek) }

VARIABLES p_pc, p_team_abbrev, p_weekly_proe, p_out
proe_vars == <<p_pc, p_team_abbrev, p_weekly_proe, p_out>>

ProeIdle == p_pc = "idle" /\ p_team_abbrev = "" /\ p_weekly_proe = {} /\ p_out = NaN

ProeInit ==
    /\ p_pc = "input"
    /\ p_team_abbrev \in {"KC", "BUF"}
    /\ p_weekly_proe \in ProeSeasons
    /\ p_out = NaN

\* the call calculate_weighted_proe(team_abbrev, weekly_proe) of line 342
CalculateWeightedProe ==
    /\ p_pc = "input"
    /\ p_out' = calculate_weighted_proe(p_team_abbrev, p_weekly_proe, 8)
    /\ p_pc' = "done"
    /\ UNCHANGED <<p_team_abbrev, p_weekly_proe>>

\* ---- the FantasyPros scraper (src/utils/scrape_fantasypros.py) -------------

\* max_week of get_available_weeks (14 at line 291, smaller in the model)
MaxScrapeWeek == 3

\* the runs of scrape_all_positions in one behaviour
MaxScrapeRuns == 2

\* positions_to_scrape, restricted to two of the keys of POSITION_URLS
ScrapePositions == <<"QB", "RB">>

\* a cell of the Week column as the words of its text; a cell that is no str
\* (a numeric column) has no words
WeekText(week_num) == <<"Week", ToString(week_num)>>
NumberCell == <<>>

\* int(s): the number a decimal string denotes, -1 for a ValueError
IntOf(s) ==
    IF \E n \in 0..(MaxScrapeWeek + 1) : ToString(n) = s
    THEN CHOOSE n \in 0..(MaxScrapeWeek + 1) : ToString(n) = s
    ELSE -1

\* lines 120-142: the CSV of a position; no file, an unreadable file and a
\* file without the Week column give the empty set
get_existing_weeks(csv_file) ==
    IF ~csv_file.exists \/ ~csv_file.readable \/ ~csv_file.week_column THEN {}
    ELSE LET unique == { csv_file.rows[i] : i \in 1..Len(csv_file.rows) }
             labels == { week_text \in unique : Len(week_text) >= 2 /\ week_text[1] = "Week" }
         IN { IntOf(week_text[2]) : week_text \in labels } \ {-1}

RECURSIVE WeeksFrom(_, _, _)
\* lines 157-163: the loop over range(1, max_week + 1)
WeeksFrom(week_num, max_week, existing_weeks) ==
    IF week_num > max_week THEN <<>>
    ELSE (IF week_num \notin existing_weeks
          THEN << [value |-> ToString(week_num), text |-> WeekText(week_num)] >>
          ELSE <<>>) \o WeeksFrom(week_num + 1, max_week, existing_weeks)

\* every week of 1..max_week, whatever the CSV holds
get_available_weeks_all(max_week, existing_weeks) == WeeksFrom(1, max_week, {})

\* get_available_weeks(driver, max_week, existing_weeks)
get_available_weeks(max_week, existing_weeks) == WeeksFrom(1, max_week, existing_weeks)

NoFile == [exists |-> FALSE, readable |-> FALSE, week_column |-> FALSE, rows |-> <<>>]
CsvFile(week_column, rows) ==
    [exists |-> TRUE, readable |-> TRUE, week_column |-> week_column, rows |-> rows]

\* the position's CSV before a run
CsvFiles ==
    { NoFile,
      CsvFile(TRUE, <<WeekText(1)>>),
      CsvFile(TRUE, <<WeekText(1), WeekText(3), WeekText(3)>>),
      CsvFile(TRUE, <<WeekText(1), WeekText(2), WeekText(3)>>),
      CsvFile(TRUE, <<WeekText(2), <<"Wk", "1">>, <<"Week", "x">>, WeekText(4)>>),
      CsvFile(TRUE, <<NumberCell, NumberCell>>),
      CsvFile(FALSE, <<NumberCell>>),
      [exists |-> TRUE, readable |-> FALSE, week_column |-> FALSE, rows |-> <<>>] }

VARIABLES f_pc, f_run, f_files, f_position, f_existing_weeks, f_available_weeks,
          f_all_weeks_data, f_requested, f_failed, f_prev_clean, f_before
scrape_vars == <<f_pc, f_run, f_files, f_position, f_existing_weeks, f_available_weeks,
                 f_all_weeks_data, f_requested, f_failed, f_prev_clean, f_before>>

NoRequests == [p \in 1..Len(ScrapePositions) |-> <<>>]

ScrapeIdle ==
    /\ f_pc = "idle" /\ f_run = 0 /\ f_files = <<>> /\ f_position = 0
    /\ f_existing_weeks = {} /\ f_available_weeks = <<>> /\ f_all_weeks_data = <<>>
    /\ f_requested = <<>> /\ f_failed = FALSE /\ f_prev_clean = FALSE /\ f_before = <<>>

ScrapeInit ==
    /\ f_pc = "position"
    /\ f_run = 1
    /\ f_files \in [1..Len(ScrapePositions) -> CsvFiles]
    /\ f_position = 1
    /\ f_existing_weeks = {}
    /\ f_available_weeks = <<>>
    /\ f_all_weeks_data = <<>>
    /\ f_requested = NoRequests
    /\ f_failed = FALSE
    /\ f_prev_clean = FALSE
    /\ f_before = f_files

\* lines 280-305: the existing weeks of the position and the weeks to scrape
\* (weeks is None); nothing to scrape continues with the next position
CheckExisting ==
    /\ f_pc = "position"
    /\ f_position <= Len(ScrapePositions)
    /\ LET existing_weeks == get_existing_weeks(f_files[f_position])
           available_weeks == get_available_weeks(MaxScrapeWeek, existing_weeks)
       IN /\ f_existing_weeks' = existing_weeks
          /\ f_available_weeks' = available_weeks
          /\ IF available_weeks = <<>>
             THEN f_position' = f_position + 1 /\ f_pc' = "position"
             ELSE f_position' = f_position /\ f_pc' = "weeks"
    /\ f_all_weeks_data' = <<>>
    /\ UNCHANGED <<f_run, f_files, f_requested, f_failed, f_prev_clean, f_before>>

\* lines 299-308 and 195-245: one request of scrape_position_week, which
\* returns the table of the week with its Week column or None
ScrapeWeek ==
    /\ f_pc = "weeks"
    /\ f_available_weeks # <<>>
    /\ LET week_info == Head(f_available_weeks)
       IN /\ f_requested' = [f_requested EXCEPT
                                ![f_position] = Append(@, IntOf(week_info.value))]
          /\ \E scraped \in BOOLEAN :
                /\ f_all_weeks_data' = IF scraped THEN Append(f_all_weeks_data, week_info.text)
                                       ELSE f_all_weeks_data
                /\ f_failed' = (f_failed \/ ~scraped)
    /\ f_available_weeks' = Tail(f_available_weeks)
    /\ UNCHANGED <<f_pc, f_run, f_files, f_position, f_existing_weeks, f_prev_clean, f_before>>

\* lines 311-331: append to the file read again, overwrite when the append
\* raises, create the file when there was none or no week was found in it
SavePosition ==
    /\ f_pc = "weeks"
    /\ f_available_weeks = <<>>
    /\ LET output_file == f_files[f_position]
           new_data_df == f_all_weeks_data
       IN IF new_data_df = <<>> THEN UNCHANGED <<f_files, f_failed>>
          ELSE IF output_file.exists /\ f_existing_weeks # {}
          THEN \E appended \in BOOLEAN :
                  /\ f_files' = [f_files EXCEPT ![f_position] =
                                    IF appended THEN CsvFile(TRUE, output_file.rows \o new_data_df)
                                    ELSE CsvFile(TRUE, new_data_df)]
                  /\ f_failed' = (f_failed \/ ~appended)
          ELSE /\ f_files' = [f_files EXCEPT ![f_position] = CsvFile(TRUE, new_data_df)]
               /\ UNCHANGED f_failed
    /\ f_position' = f_position + 1
    /\ f_pc' = "position"
    /\ UNCHANGED <<f_run, f_existing_weeks, f_available_weeks, f_all_weeks_data,
                   f_requested, f_prev_clean, f_before>>

\* lines 333-343: the positions are done
FinishRun ==
    /\ f_pc = "position"
    /\ f_position > Len(ScrapePositions)
    /\ f_pc' = "done"
    /\ UNCHANGED <<f_run, f_files, f_position, f_existing_weeks, f_available_weeks,
                   f_all_weeks_data, f_requested, f_failed, f_prev_clean, f_before>>

\* the script is started again on the files of the last run; f_prev_clean
\* records that in the last run every request returned a table and no append
\* fell back to overwriting
RunAgain ==
    /\ f_pc = "done"
    /\ f_run < MaxScrapeRuns
    /\ f_run' = f_run + 1
    /\ f_pc' = "position"
    /\ f_position' = 1
    /\ f_existing_weeks' = {}
    /\ f_available_weeks' = <<>>
    /\ f_all_weeks_data' = <<>>
    /\ f_requested' = NoRequests
    /\ f_failed' = FALSE
    /\ f_prev_clean' = ~f_failed
    /\ f_before' = f_files
    /\ UNCHANGED f_files

\* ---- load_matchups (src/data/data_loader.py) -------------------------------

\* the most games of an odds.csv of the model
MaxGames == 2

\* the rows of odds.csv: half-point lines from the home team's side
OddsGames ==
    [home_team : {"KC", "DAL"}, away_team : {"BUF", "PHI"},
     spread_home : {-3500, 0, 2500}, over_under_line : {41500, 48000}]

\* data/Matchup.csv, the legacy table
LegacyMatchup ==
    << [Init |-> "KC", Opp |-> "BUF", Spread |-> -3500, Total |-> 48000, ITT |-> 25750] >>

\* lines 58-66
home_row(game) ==
    LET row == [Init |-> game.home_team, Opp |-> game.away_team,
                Spread |-> game.spread_home, Total |-> game.over_under_line]
    IN row @@ [ITT |-> FAdd(FDiv(row.Total, 2 * SCALE), FDiv(row.Spread, 2 * SCALE))]

\* the away row with the home team's spread
away_row_unflipped(game) ==
    LET row == [Init |-> game.away_team, Opp |-> game.home_team,
                Spread |-> game.spread_home, Total |-> game.over_under_line]
    IN row @@ [ITT |-> FAdd(FDiv(row.Total, 2 * SCALE), FDiv(row.Spread, 2 * SCALE))]

\* lines 68-76
away_row(game) ==
    LET row == [Init |-> game.away_team, Opp |-> game.home_team,
                Spread |-> FSub(0, game.spread_home), Total |-> game.over_under_line]
    IN row @@ [ITT |-> FAdd(FDiv(row.Total, 2 * SCALE), FDiv(row.Spread, 2 * SCALE))]

RECURSIVE matchup_rows(_)
\* lines 55-76: the loop over odds.iterrows()
matchup_rows(odds) ==
    IF odds = <<>> THEN <<>>
    ELSE <<home_row(Head(odds)), away_row(Head(odds))>> \o matchup_rows(Tail(odds))

\* load_matchups()
load_matchups(odds_exists, odds) ==
    IF odds_exists THEN matchup_rows(odds) ELSE LegacyMatchup

VARIABLES d_pc, d_odds_exists, d_odds, d_matchups
loader_vars == <<d_pc, d_odds_exists, d_odds, d_matchups>>

LoaderIdle == d_pc = "idle" /\ d_odds_exists = FALSE /\ d_odds = <<>> /\ d_matchups = <<>>

LoaderInit ==
    /\ d_pc = "files"
    /\ d_odds_exists \in BOOLEAN
    /\ d_odds \in UNION {[1..n -> OddsGames] : n \in 0..MaxGames}
    /\ d_odds_exists = FALSE => d_odds = <<>>
    /\ d_matchups = <<>>

\* the call load_matchups()
LoadMatchups ==
    /\ d_pc = "files"
    /\ d_matchups' = load_matchups(d_odds_exists, d_odds)
    /\ d_pc' = "loaded"
    /\ UNCHANGED <<d_odds_exists, d_odds>>

\* ---- build_env_state over the range of its inputs --------------------------

\* ovr_matchup_strength of a team (lines 421-428): a weighted sum of z-scores
EnvStrengths == {-2000, 0, 2000}

\* the slider of line 182: 0.0 to 0.2, default 0.05
EnvAlphas == {0, alpha_matchup, 200}

\* rng.normal(total_base, total_sd) and rng.normal(spread_base, spread_sd):
\* totals below and at the floor of 10 and near the line; spreads near the line,
\* above the floor and above the total
EnvTotalDraws == {5000, 10000, 48000}
EnvSpreadDraws == {-3500, 0, 25000, 60000}

VARIABLES e_pc, e_strength, e_alpha, e_draw, e_env
env_vars == <<e_pc, e_strength, e_alpha, e_draw, e_env>>

EnvIdle ==
    /\ e_pc = "idle" /\ e_strength = <<>> /\ e_alpha = 0
    /\ e_draw = [total |-> 0, spread |-> 0] /\ e_env = NoEnv

EnvInit ==
    /\ e_pc = "draw"
    /\ e_strength \in [{"BUF", "KC"} -> EnvStrengths]
    /\ e_alpha \in EnvAlphas
    /\ e_draw \in [total : EnvTotalDraws, spread : EnvSpreadDraws]
    /\ e_env = NoEnv

\* team_env of lines 417-482 with the strengths of the two teams
env_team_env ==
    LET team_env == team_env_of(SimMatchups, FALSE)
    IN [t \in DOMAIN team_env |->
          [team_env[t] EXCEPT !.ovr_matchup_strength = e_strength[t]]]

\* the call build_env_state(team_env, matchup_df, total_sd, spread_sd,
\* alpha_matchup, rng) of line 919
BuildEnvState ==
    /\ e_pc = "draw"
    /\ e_env' = [g \in UniqueGames(SimMatchups) |->
                    game_env_alpha(env_team_env, g, e_draw, e_alpha)]
    /\ e_pc' = "built"
    /\ UNCHANGED <<e_strength, e_alpha, e_draw>>

\* ---- the page of the lineup simulator up to the button (sims_tool.run) ------

\* the columns of the output of roo_simulator.py the simulator reads
RooColumns == {"Player", "Team", "Position", "Salary", "OWS_Median_Proj", "OWS_Proj_Own"}

\* the ROO projections upload: complete, with Name for Player, or without one column
RooUploads ==
    {RooColumns, (RooColumns \ {"Player"}) \cup {"Name"}}
        \cup {RooColumns \ {c} : c \in RooColumns \ {"Team"}}

MatchupColumns == {"Init", "Opp", "Total", "Spread"}

\* the matchup upload: complete, with Team for Init, or without one column
MatchupUploads ==
    {MatchupColumns, (MatchupColumns \ {"Init"}) \cup {"Team"}}
        \cup {MatchupColumns \ {c} : c \in MatchupColumns}

\* line 319
position_cols == {"QB", "RB1", "RB2", "WR1", "WR2", "WR3", "TE", "FLEX", "DST"}

\* the lineups upload: the standard header, the DraftKings header as pandas
\* reads it, and a header without FLEX
LineupUploads ==
    {position_cols,
     {"QB", "RB", "RB.1", "WR", "WR.1", "WR.2", "TE", "FLEX", "DST"},
     position_cols \ {"FLEX"}}

\* variant.lower() in col.lower(), for the variants and columns of the model
LowerIn(variant, col) ==
    \/ variant \in {"Player", "player"} /\ col = "Player"
    \/ variant \in {"Name", "name"} /\ col = "Name"
    \/ variant \in {"Team", "team"} /\ col = "Team"
    \/ variant = "Init" /\ col = "Init"

RECURSIVE find_column(_, _)
\* find_column(df, variants), lines 192-198: a column that contains the first
\* variant that some column contains, "" for None
find_column(columns, variants) ==
    IF variants = <<>> THEN ""
    ELSE IF \E col \in columns : LowerIn(Head(variants), col)
    THEN CHOOSE col \in columns : LowerIn(Head(variants), col)
    ELSE find_column(columns, Tail(variants))

\* DataFrame.rename(columns=mapping) on the set of column names
Renamed(columns, mapping) ==
    { IF c \in DOMAIN mapping THEN mapping[c] ELSE c : c \in columns }

\* lines 221-224: the columns of column_mapping the model's uploads can hold
column_mapping == [OWS_Median_Proj |-> "median_proj", OWS_Proj_Own |-> "Proj_Own"]

VARIABLES g_pc, g_files, g_players, g_matchup, g_lineups, g_message
page_vars == <<g_pc, g_files, g_players, g_matchup, g_lineups, g_message>>

PageIdle ==
    /\ g_pc = "idle" /\ g_files = <<>> /\ g_players = {} /\ g_matchup = {}
    /\ g_lineups = {} /\ g_message = ""

\* a rerun of the script with the files of the sidebar; an upload that is
\* missing is the empty set of columns with uploaded FALSE
PageInit ==
    /\ g_pc = "uploads"
    /\ g_files \in [roo : [uploaded : BOOLEAN, columns : RooUploads],
                    matchup : [uploaded : BOOLEAN, columns : MatchupUploads],
                    lineups : [uploaded : BOOLEAN, columns : LineupUploads],
                    team_offense : BOOLEAN, team_defense : BOOLEAN]
    /\ g_players = {}
    /\ g_matchup = {}
    /\ g_lineups = {}
    /\ g_message = ""

\* st.error(message) followed by st.stop()
PageStop(message) == g_pc' = "stopped" /\ g_message' = message

\* line 201 and lines 1157-1158: the three uploads or the request for them
CheckUploads ==
    /\ g_pc = "uploads"
    /\ IF g_files.roo.uploaded /\ g_files.matchup.uploaded /\ g_files.lineups.uploaded
       THEN g_pc' = "players" /\ UNCHANGED g_message
       ELSE g_pc' = "waiting" /\ g_message' = "Please upload all 4 required CSV files"
    /\ UNCHANGED <<g_files, g_players, g_matchup, g_lineups>>

\* lines 203-259: the ROO projections
LoadPlayers ==
    /\ g_pc = "players"
    /\ LET name_col == find_column(g_files.roo.columns, <<"Player", "Name", "player", "name">>)
           named == Renamed(g_files.roo.columns,
                            IF name_col = "" THEN <<>> ELSE (name_col :> "Name"))
           roo_df == Renamed(named, column_mapping)
       IN IF name_col = ""
          THEN PageStop("ROO Projections CSV missing player name column") /\ UNCHANGED g_players
          ELSE IF ~({"Name", "Position", "Team", "Salary"} \subseteq roo_df)
          THEN PageStop("ROO Projections CSV missing required columns") /\ UNCHANGED g_players
          ELSE IF "median_proj" \notin roo_df
          THEN PageStop("ROO Projections CSV missing median projection column")
               /\ UNCHANGED g_players
          ELSE /\ g_players' = roo_df \cup {"Proj_Own", "ceiling_proj", "var_dk"}
               /\ g_pc' = "matchup"
               /\ UNCHANGED g_message
    /\ UNCHANGED <<g_files, g_matchup, g_lineups>>

\* lines 261-285: the matchup table
LoadMatchup ==
    /\ g_pc = "matchup"
    /\ LET team_col == find_column(g_files.matchup.columns, <<"Init", "Team", "team">>)
           matchup_df == Renamed(g_files.matchup.columns,
                                 IF team_col = "" THEN <<>> ELSE (team_col :> "Team"))
       IN IF team_col = ""
          THEN PageStop("Matchup CSV missing team column") /\ UNCHANGED g_matchup
          ELSE IF "Opp" \notin matchup_df
          THEN PageStop("Matchup CSV missing 'Opp' column") /\ UNCHANGED g_matchup
          ELSE IF "Total" \notin matchup_df
          THEN PageStop("Matchup CSV missing 'Total' column") /\ UNCHANGED g_matchup
          ELSE g_matchup' = matchup_df /\ g_pc' = "lineups" /\ UNCHANGED g_message
    /\ UNCHANGED <<g_files, g_players, g_lineups>>

\* lines 287-326: the lineups
LoadLineups ==
    /\ g_pc = "lineups"
    /\ LET columns == g_files.lineups.columns
           dk_format == "RB.1" \in columns \/ ("RB" \in columns /\ "RB1" \notin columns)
           col_mapping == [c \in {"RB", "RB.1", "WR", "WR.1", "WR.2"} \cap columns |->
                             CASE c = "RB" -> "RB1" [] c = "RB.1" -> "RB2" [] c = "WR" -> "WR1"
                               [] c = "WR.1" -> "WR2" [] c = "WR.2" -> "WR3"]
           lineups_df == IF dk_format THEN Renamed(columns, col_mapping) ELSE columns
       IN IF ~(position_cols \subseteq lineups_df)
          THEN PageStop("Lineups CSV missing required position columns")
               /\ UNCHANGED g_lineups
          ELSE g_lineups' = lineups_df /\ g_pc' = "team_stats" /\ UNCHANGED g_message
    /\ UNCHANGED <<g_files, g_players, g_matchup>>

\* lines 328-338 and 1151-1154: the optional uploads are read; the message of
\* line 338 evaluates len(weekly_stats_df), a name that run() never binds, so
\* it raises a NameError and the except shows it; the lines from 340 on,
\* which build the mappings and show the button, are not executed
LoadTeamStats ==
    /\ g_pc = "team_stats"
    /\ g_pc' = "error"
    /\ g_message' = "Error processing files: name 'weekly_stats_df' is not defined"
    /\ UNCHANGED <<g_files, g_players, g_matchup, g_lineups>>

\* ---- the field lineups of the simulator (generate_field_lineups) ----------

\* the largest field sample of the model (the page samples at least 150)
MaxFieldSizeSim == 2

\* a row of players_df as generate_field_lineups reads it
FieldRow(name, position, salary, own) ==
    [Name |-> name, Position |-> position, Salary |-> salary, Proj_Own |-> own]

\* a slate with one spare tight end for the FLEX and a second, dearer defence
FieldSlate(dst2_salary) ==
    << FieldRow("Q", "QB", 6000, 10), FieldRow("R1", "RB", 7000, 20),
       FieldRow("R2", "RB", 5000, 15), FieldRow("W1", "WR", 7000, 20),
       FieldRow("W2", "WR", 6000, 15), FieldRow("W3", "WR", 5000, 10),
       FieldRow("T1", "TE", 4000, 10), FieldRow("T2", "TE", 3000, 5),
       FieldRow("D1", "DST", 3000, 10), FieldRow("D2", "DST", dst2_salary, 5) >>

\* the uploads of the model: a slate whose dearer defence breaks the cap, one
\* where it meets the cap exactly, one with a receiver nobody owns, one with
\* no player left for the FLEX, and one where the row of R1 is uploaded twice
FieldUploads ==
    { FieldSlate(7500),
      FieldSlate(7000),
      [FieldSlate(7500) EXCEPT ![6].Proj_Own = 0],
      SubSeq(FieldSlate(7500), 1, 7) \o SubSeq(FieldSlate(7500), 9, 10),
      <<FieldRow("R1", "RB", 7000, 20)>> \o SubSeq(FieldSlate(7500), 1, 7)
          \o SubSeq(FieldSlate(7500), 9, 9) }

\* lines 761-765: the rows of a position with Proj_Own > 0
FieldCandidates(rows, position) ==
    { i \in 1..Len(rows) : rows[i].Position = position /\ rows[i].Proj_Own > 0 }

\* line 776: dict(zip(Name, Salary)), the last row of a name wins; .get(p, 0)
player_salary(rows, name) ==
    LET named == { i \in 1..Len(rows) : rows[i].Name = name }
    IN IF named = {} THEN 0
       ELSE rows[CHOOSE i \in named : \A k \in named : k <= i].Salary

\* line 806: the sum of the salaries of the lineup
RECURSIVE total_salary(_, _)
total_salary(rows, lineup_players) ==
    IF lineup_players = <<>> THEN 0
    ELSE player_salary(rows, Head(lineup_players)) + total_salary(rows, Tail(lineup_players))

\* lines 790-794: the candidates of RB, WR and TE whose name was not sampled
\* for their own position
flex_pool(rows, rb, wr, te) ==
    { i \in FieldCandidates(rows, "RB") : rows[i].Name \notin { rows[k].Name : k \in rb } }
    \cup { i \in FieldCandidates(rows, "WR") : rows[i].Name \notin { rows[k].Name : k \in wr } }
    \cup { i \in FieldCandidates(rows, "TE") : rows[i].Name \notin { rows[k].Name : k \in te } }

\* lines 783-787: what rng.choice can sample, as rows of players_df: one QB,
\* two different RB rows, three different WR rows, one TE, one DST; empty when
\* a choice raises (no candidate, or fewer rows than the size asked for)
FieldSamples(rows) ==
    { s \in [qb : FieldCandidates(rows, "QB"),
             rb1 : FieldCandidates(rows, "RB"), rb2 : FieldCandidates(rows, "RB"),
             wr1 : FieldCandidates(rows, "WR"), wr2 : FieldCandidates(rows, "WR"),
             wr3 : FieldCandidates(rows, "WR"),
             te : FieldCandidates(rows, "TE"), dst : FieldCandidates(rows, "DST")] :
        /\ s.rb1 # s.rb2
        /\ s.wr1 # s.wr2 /\ s.wr1 # s.wr3 /\ s.wr2 # s.wr3 }

VARIABLES
    fl_pc,              \* "idle", "generating", "returned"
    fl_players_df,      \* players_df
    fl_field_size_sim,  \* field_size_sim
    fl_lineups,         \* lineups
    fl_attempts         \* attempts

field_vars == <<fl_pc, fl_players_df, fl_field_size_sim, fl_lineups, fl_attempts>>

FieldIdle ==
    /\ fl_pc = "idle"
    /\ fl_players_df = <<>>
    /\ fl_field_size_sim = 0
    /\ fl_lineups = <<>>
    /\ fl_attempts = 0

FieldInit == FieldIdle

\* lines 753-776: the call, with the table of the upload and the sample size
StartField ==
    /\ fl_pc = "idle"
    /\ \E rows \in FieldUploads, size \in 1..MaxFieldSizeSim :
          /\ fl_players_df' = rows
          /\ fl_field_size_sim' = size
    /\ fl_pc' = "generating"
    /\ fl_lineups' = <<>>
    /\ fl_attempts' = 0

\* lines 778-810: one pass of the loop
FieldAttempt ==
    /\ fl_pc = "generating"
    /\ Len(fl_lineups) < fl_field_size_sim
    /\ fl_attempts < fl_field_size_sim * 5
    /\ fl_attempts' = fl_attempts + 1
    /\ \/ \* a choice raises, line 809
          /\ FieldSamples(fl_players_df) = {}
          /\ fl_lineups' = fl_lineups
       \/ \E s \in FieldSamples(fl_players_df) :
             LET pool == flex_pool(fl_players_df, {s.rb1, s.rb2}, {s.wr1, s.wr2, s.wr3}, {s.te})
             IN \/ \* line 796
                   /\ pool = {}
                   /\ fl_lineups' = fl_lineups
                \/ \E flex \in pool :
                      LET picked == <<s.qb, s.rb1, s.rb2, s.wr1, s.wr2, s.wr3, s.te, flex, s.dst>>
                          lineup_players == [k \in 1..9 |-> fl_players_df[picked[k]].Name]
                      IN fl_lineups' =
                            IF total_salary(fl_players_df, lineup_players) <= 50000
                            THEN Append(fl_lineups, lineup_players)
                            ELSE fl_lineups
    /\ UNCHANGED <<fl_pc, fl_players_df, fl_field_size_sim>>

\* line 812: the loop is over
FieldReturn ==
    /\ fl_pc = "generating"
    /\ ~(Len(fl_lineups) < fl_field_size_sim /\ fl_attempts < fl_field_size_sim * 5)
    /\ fl_pc' = "returned"
    /\ UNCHANGED <<fl_players_df, fl_field_size_sim, fl_lineups, fl_attempts>>

\* ---- the lineups of the pre-contest simulator (pre_contest_sim.run) --------

\* Number of Lineups and Contest Size of the sidebar, lines 40-42
num_lineups == 1
contest_size == 2

\* a row of projections_df as the lineup builders read it
PreRow(name, position, salary, exposure, own) ==
    [name |-> name, position |-> position, Salary |-> salary, exposure |-> exposure,
     Own |-> own]

\* a slate with a third running back: every player has exposure, the field
\* owns one running back and two receivers only
PreSlate ==
    << PreRow("Q", "QB", 6000, 100, 10), PreRow("R1", "RB", 7000, 50, 20),
       PreRow("R2", "RB", 5000, 50, 0), PreRow("R3", "RB", 4500, 20, 0),
       PreRow("W1", "WR", 7000, 50, 20), PreRow("W2", "WR", 6000, 50, 15),
       PreRow("W3", "WR", 5000, 50, 0), PreRow("T", "TE", 4000, 100, 10),
       PreRow("D", "DST", 3000, 100, 10) >>

\* the same nine players at star prices
PreStars ==
    << PreRow("Q", "QB", 9000, 100, 10), PreRow("R1", "RB", 9000, 50, 20),
       PreRow("R2", "RB", 9000, 50, 15), PreRow("R3", "RB", 8000, 20, 5),
       PreRow("W1", "WR", 9000, 50, 20), PreRow("W2", "WR", 9000, 50, 15),
       PreRow("W3", "WR", 9000, 50, 10), PreRow("T", "TE", 7000, 100, 10),
       PreRow("D", "DST", 4000, 100, 10) >>

\* what the page can hold when the button is pressed: the two slates, and the
\* first with the exposure of one player set to 0 in the editor
PreUploads == { PreSlate, PreStars, [PreSlate EXCEPT ![4].exposure = 0] }

\* the position loop of lines 350 and 393
lineup_slots == <<"QB", "RB", "RB", "WR", "WR", "WR", "TE", "DST">>

\* lines 351-355 and 394-397: the players of a slot that fit the remaining
\* salary; the user's lineups also ask for exposure > 0
pos_players(rows, positions, remaining_salary, mine) ==
    { i \in 1..Len(rows) :
        /\ rows[i].position \in positions
        /\ mine => rows[i].exposure > 0
        /\ rows[i].Salary <= remaining_salary }

\* lines 361-364 and 403-406: np.random.choice picks a player of the pool
\* whose weight (exposure, or Own% for the field) is above zero
Pickable(rows, pool, mine) ==
    { i \in pool : IF mine THEN rows[i].exposure > 0 ELSE rows[i].Own > 0 }

\* lines 346-382 and 388-421: every lineup one pass of the outer loop can
\* build: a slot with an empty pool is skipped, the FLEX is added last and
\* only when a player fits
RECURSIVE BuildLineups(_, _, _, _, _)
BuildLineups(rows, slots, lineup, remaining_salary, mine) ==
    IF slots = <<>>
    THEN LET flex_players == pos_players(rows, {"RB", "WR", "TE"}, remaining_salary, mine)
         IN IF flex_players = {} THEN {lineup}
            ELSE { Append(lineup, rows[i].name) : i \in Pickable(rows, flex_players, mine) }
    ELSE LET pool == pos_players(rows, {Head(slots)}, remaining_salary, mine)
         IN IF pool = {} THEN BuildLineups(rows, Tail(slots), lineup, remaining_salary, mine)
            ELSE UNION { BuildLineups(rows, Tail(slots), Append(lineup, rows[i].name),
                                      remaining_salary - rows[i].Salary, mine) :
                         i \in Pickable(rows, pool, mine) }

VARIABLES
    pr_pc,              \* "idle", "running", "mine", "built", "stopped"
    pr_projections_df,  \* projections_df with the exposures of the editor
    pr_my_lineups,      \* my_lineups
    pr_field_lineups    \* field_lineups

pre_vars == <<pr_pc, pr_projections_df, pr_my_lineups, pr_field_lineups>>

PreIdle ==
    /\ pr_pc = "idle"
    /\ pr_projections_df = <<>>
    /\ pr_my_lineups = <<>>
    /\ pr_field_lineups = <<>>

PreInit == PreIdle

\* lines 314-323: the button, and the check of the exposures
RunPreContest ==
    /\ pr_pc = "idle"
    /\ \E rows \in PreUploads :
          /\ pr_projections_df' = rows
          /\ pr_pc' = IF Cardinality({ i \in 1..Len(rows) : rows[i].exposure > 0 }) < 9
                      THEN "stopped" ELSE "running"
    /\ UNCHANGED <<pr_my_lineups, pr_field_lineups>>

\* lines 341-382: the user's lineups
BuildMyLineups ==
    /\ pr_pc = "running"
    /\ pr_my_lineups' \in
          [1..num_lineups -> BuildLineups(pr_projections_df, lineup_slots, <<>>, 50000, TRUE)]
    /\ pr_pc' = "mine"
    /\ UNCHANGED <<pr_projections_df, pr_field_lineups>>

\* lines 384-421: the lineups of the field
BuildFieldLineups ==
    /\ pr_pc = "mine"
    /\ pr_field_lineups' \in
          [1..(IF contest_size - num_lineups < 1000 THEN contest_size - num_lineups ELSE 1000) ->
              BuildLineups(pr_projections_df, lineup_slots, <<>>, 50000, FALSE)]
    /\ pr_pc' = "built"
    /\ UNCHANGED <<pr_projections_df, pr_my_lineups>>

\* ---- specifications ------------------------------------------------------

vars == <<pipeline_vars, matchup_vars, columns_vars, sims_vars, output_vars, proe_vars, scrape_vars,
        loader_vars, env_vars, page_vars, field_vars, pre_vars>>

Init == PipelineInit /\ MatchupIdle /\ ColumnsIdle /\ SimsIdle /\ OutputIdle /\ ProeIdle /\ ScrapeIdle /\ LoaderIdle /\ EnvIdle /\ PageIdle /\ FieldIdle /\ PreIdle

Next ==
    \/ load_data /\ UNCHANGED <<matchup_vars, columns_vars, sims_vars, output_vars, proe_vars,
            scrape_vars, loader_vars, env_vars, page_vars, field_vars, pre_vars>>
    \/ BuildPlayerVolatility /\ UNCHANGED <<matchup_vars, columns_vars, sims_vars, output_vars,
            proe_vars, scrape_vars, loader_vars, env_vars, page_vars, field_vars, pre_vars>>
    \/ BuildCurrentWeek /\ UNCHANGED <<matchup_vars, columns_vars, sims_vars, output_vars,
            proe_vars, scrape_vars, loader_vars, env_vars, page_vars, field_vars, pre_vars>>
    \/ BuildDistributions /\ UNCHANGED <<matchup_vars, columns_vars, sims_vars, output_vars,
            proe_vars, scrape_vars, loader_vars, env_vars, page_vars, field_vars, pre_vars>>
    \/ OtherDraw /\ UNCHANGED <<matchup_vars, columns_vars, sims_vars, output_vars, proe_vars,
            scrape_vars, loader_vars, env_vars, page_vars, field_vars, pre_vars>>
    \/ RunSimulations /\ UNCHANGED <<matchup_vars, columns_vars, sims_vars, output_vars, proe_vars,
            scrape_vars, loader_vars, env_vars, page_vars, field_vars, pre_vars>>

\* the pipeline generate_roo_projections
Spec == Init /\ [][Next]_vars

InitMatchup == MatchupInit /\ PipelineInit /\ ColumnsIdle /\ SimsIdle /\ OutputIdle /\ ProeIdle /\ ScrapeIdle /\ LoaderIdle /\ EnvIdle /\ PageIdle /\ FieldIdle /\ PreIdle

NextMatchup == ComputeMatchupMultiplier /\ UNCHANGED <<pipeline_vars, columns_vars, sims_vars,
        output_vars, proe_vars, scrape_vars, loader_vars, env_vars, page_vars, field_vars,
        pre_vars>>

\* compute_matchup_multiplier applied to one row
SpecMatchup == InitMatchup /\ [][NextMatchup]_vars

InitColumns == ColumnsInit /\ PipelineInit /\ MatchupIdle /\ SimsIdle /\ OutputIdle /\ ProeIdle /\ ScrapeIdle /\ LoaderIdle /\ EnvIdle /\ PageIdle /\ FieldIdle /\ PreIdle

NextColumns ==
    \/ ColumnsVolatility /\ UNCHANGED <<pipeline_vars, matchup_vars, sims_vars, output_vars,
            proe_vars, scrape_vars, loader_vars, env_vars, page_vars, field_vars, pre_vars>>
    \/ ColumnsSlate /\ UNCHANGED <<pipeline_vars, matchup_vars, sims_vars, output_vars, proe_vars,
            scrape_vars, loader_vars, env_vars, page_vars, field_vars, pre_vars>>
    \/ ColumnsDistributions /\ UNCHANGED <<pipeline_vars, matchup_vars, sims_vars, output_vars,
            proe_vars, scrape_vars, loader_vars, env_vars, page_vars, field_vars, pre_vars>>
    \/ ColumnsSimulate /\ UNCHANGED <<pipeline_vars, matchup_vars, sims_vars, output_vars,
            proe_vars, scrape_vars, loader_vars, env_vars, page_vars, field_vars, pre_vars>>
    \/ ColumnsOutput /\ UNCHANGED <<pipeline_vars, matchup_vars, sims_vars, output_vars, proe_vars,
            scrape_vars, loader_vars, env_vars, page_vars, field_vars, pre_vars>>

\* generate_roo_projections on input files with a missing column
SpecColumns == InitColumns /\ [][NextColumns]_vars

InitSims == SimsInit /\ PipelineInit /\ MatchupIdle /\ ColumnsIdle /\ OutputIdle /\ ProeIdle /\ ScrapeIdle /\ LoaderIdle /\ EnvIdle /\ PageIdle /\ FieldIdle /\ PreIdle

NextSims ==
    \/ RunButton /\ UNCHANGED <<pipeline_vars, matchup_vars, columns_vars, output_vars, proe_vars,
            scrape_vars, loader_vars, env_vars, page_vars, field_vars, pre_vars>>
    \/ IterEnv /\ UNCHANGED <<pipeline_vars, matchup_vars, columns_vars, output_vars, proe_vars,
            scrape_vars, loader_vars, env_vars, page_vars, field_vars, pre_vars>>
    \/ IterSample /\ UNCHANGED <<pipeline_vars, matchup_vars, columns_vars, output_vars, proe_vars,
            scrape_vars, loader_vars, env_vars, page_vars, field_vars, pre_vars>>
    \/ IterQbRule /\ UNCHANGED <<pipeline_vars, matchup_vars, columns_vars, output_vars, proe_vars,
            scrape_vars, loader_vars, env_vars, page_vars, field_vars, pre_vars>>
    \/ IterRbRule /\ UNCHANGED <<pipeline_vars, matchup_vars, columns_vars, output_vars, proe_vars,
            scrape_vars, loader_vars, env_vars, page_vars, field_vars, pre_vars>>
    \/ IterDstRule /\ UNCHANGED <<pipeline_vars, matchup_vars, columns_vars, output_vars, proe_vars,
            scrape_vars, loader_vars, env_vars, page_vars, field_vars, pre_vars>>
    \/ IterScore /\ UNCHANGED <<pipeline_vars, matchup_vars, columns_vars, output_vars, proe_vars,
            scrape_vars, loader_vars, env_vars, page_vars, field_vars, pre_vars>>
    \/ IterRank /\ UNCHANGED <<pipeline_vars, matchup_vars, columns_vars, output_vars, proe_vars,
            scrape_vars, loader_vars, env_vars, page_vars, field_vars, pre_vars>>
    \/ ShowResults /\ UNCHANGED <<pipeline_vars, matchup_vars, columns_vars, output_vars, proe_vars,
            scrape_vars, loader_vars, env_vars, page_vars, field_vars, pre_vars>>

\* the lineup simulator from the Run Simulations button on
SpecSims == InitSims /\ [][NextSims]_vars

InitOutput == OutputInit /\ PipelineInit /\ MatchupIdle /\ ColumnsIdle /\ SimsIdle /\ ProeIdle /\ ScrapeIdle /\ LoaderIdle /\ EnvIdle /\ PageIdle /\ FieldIdle /\ PreIdle

NextOutput == SaveOutput /\ UNCHANGED <<pipeline_vars, matchup_vars, columns_vars, sims_vars,
        proe_vars, scrape_vars, loader_vars, env_vars, page_vars, field_vars, pre_vars>>

\* the sort and the save of the output table
SpecOutput == InitOutput /\ [][NextOutput]_vars

InitProe == ProeInit /\ PipelineInit /\ MatchupIdle /\ ColumnsIdle /\ SimsIdle /\ OutputIdle /\ ScrapeIdle /\ LoaderIdle /\ EnvIdle /\ PageIdle /\ FieldIdle /\ PreIdle

NextProe == CalculateWeightedProe /\ UNCHANGED <<pipeline_vars, matchup_vars, columns_vars,
        sims_vars, output_vars, scrape_vars, loader_vars, env_vars, page_vars, field_vars,
        pre_vars>>

\* calculate_weighted_proe on every season of the model
SpecProe == InitProe /\ [][NextProe]_vars

InitScrape == ScrapeInit /\ PipelineInit /\ MatchupIdle /\ ColumnsIdle /\ SimsIdle /\ OutputIdle /\ ProeIdle /\ LoaderIdle /\ EnvIdle /\ PageIdle /\ FieldIdle /\ PreIdle

NextScrape ==
    \/ CheckExisting /\ UNCHANGED <<pipeline_vars, matchup_vars, columns_vars, sims_vars,
            output_vars, proe_vars, loader_vars, env_vars, page_vars, field_vars, pre_vars>>
    \/ ScrapeWeek /\ UNCHANGED <<pipeline_vars, matchup_vars, columns_vars, sims_vars, output_vars,
            proe_vars, loader_vars, env_vars, page_vars, field_vars, pre_vars>>
    \/ SavePosition /\ UNCHANGED <<pipeline_vars, matchup_vars, columns_vars, sims_vars,
            output_vars, proe_vars, loader_vars, env_vars, page_vars, field_vars, pre_vars>>
    \/ FinishRun /\ UNCHANGED <<pipeline_vars, matchup_vars, columns_vars, sims_vars, output_vars,
            proe_vars, loader_vars, env_vars, page_vars, field_vars, pre_vars>>
    \/ RunAgain /\ UNCHANGED <<pipeline_vars, matchup_vars, columns_vars, sims_vars, output_vars,
            proe_vars, loader_vars, env_vars, page_vars, field_vars, pre_vars>>

\* scrape_all_positions with weeks unspecified, run up to MaxScrapeRuns times
SpecScrape == InitScrape /\ [][NextScrape]_vars

InitLoader == LoaderInit /\ PipelineInit /\ MatchupIdle /\ ColumnsIdle /\ SimsIdle /\ OutputIdle /\ ProeIdle /\ ScrapeIdle /\ EnvIdle /\ PageIdle /\ FieldIdle /\ PreIdle

NextLoader == LoadMatchups /\ UNCHANGED <<pipeline_vars, matchup_vars, columns_vars, sims_vars,
        output_vars, proe_vars, scrape_vars, env_vars, page_vars, field_vars, pre_vars>>

\* load_matchups on every odds.csv of the model
SpecLoader == InitLoader /\ [][NextLoader]_vars

InitEnv == EnvInit /\ PipelineInit /\ MatchupIdle /\ ColumnsIdle /\ SimsIdle /\ OutputIdle /\ ProeIdle /\ ScrapeIdle /\ LoaderIdle /\ PageIdle /\ FieldIdle /\ PreIdle

NextEnv == BuildEnvState /\ UNCHANGED <<pipeline_vars, matchup_vars, columns_vars, sims_vars,
        output_vars, proe_vars, scrape_vars, loader_vars, page_vars, field_vars, pre_vars>>

\* build_env_state for every strength, alpha and draw of the model
SpecEnv == InitEnv /\ [][NextEnv]_vars

InitPage == PageInit /\ PipelineInit /\ MatchupIdle /\ ColumnsIdle /\ SimsIdle /\ OutputIdle /\ ProeIdle /\ ScrapeIdle /\ LoaderIdle /\ EnvIdle /\ FieldIdle /\ PreIdle

NextPage ==
    \/ CheckUploads /\ UNCHANGED <<pipeline_vars, matchup_vars, columns_vars, sims_vars,
            output_vars, proe_vars, scrape_vars, loader_vars, env_vars, field_vars, pre_vars>>
    \/ LoadPlayers /\ UNCHANGED <<pipeline_vars, matchup_vars, columns_vars, sims_vars, output_vars,
            proe_vars, scrape_vars, loader_vars, env_vars, field_vars, pre_vars>>
    \/ LoadMatchup /\ UNCHANGED <<pipeline_vars, matchup_vars, columns_vars, sims_vars, output_vars,
            proe_vars, scrape_vars, loader_vars, env_vars, field_vars, pre_vars>>
    \/ LoadLineups /\ UNCHANGED <<pipeline_vars, matchup_vars, columns_vars, sims_vars, output_vars,
            proe_vars, scrape_vars, loader_vars, env_vars, field_vars, pre_vars>>
    \/ LoadTeamStats /\ UNCHANGED <<pipeline_vars, matchup_vars, columns_vars, sims_vars,
            output_vars, proe_vars, scrape_vars, loader_vars, env_vars, field_vars, pre_vars>>

\* one run of the page of the lineup simulator on the uploads of the sidebar
SpecPage == InitPage /\ [][NextPage]_vars

InitField == FieldInit /\ PipelineInit /\ MatchupIdle /\ ColumnsIdle /\ SimsIdle /\ OutputIdle /\ ProeIdle /\ ScrapeIdle /\ LoaderIdle /\ EnvIdle /\ PageIdle /\ PreIdle

NextField ==
    \/ StartField /\ UNCHANGED <<pipeline_vars, matchup_vars, columns_vars, sims_vars, output_vars,
            proe_vars, scrape_vars, loader_vars, env_vars, page_vars, pre_vars>>
    \/ FieldAttempt /\ UNCHANGED <<pipeline_vars, matchup_vars, columns_vars, sims_vars,
            output_vars, proe_vars, scrape_vars, loader_vars, env_vars, page_vars, pre_vars>>
    \/ FieldReturn /\ UNCHANGED <<pipeline_vars, matchup_vars, columns_vars, sims_vars, output_vars,
            proe_vars, scrape_vars, loader_vars, env_vars, page_vars, pre_vars>>

\* generate_field_lineups of the simulator page
SpecField == InitField /\ [][NextField]_vars

InitPre == PreInit /\ PipelineInit /\ MatchupIdle /\ ColumnsIdle /\ SimsIdle /\ OutputIdle /\ ProeIdle /\ ScrapeIdle /\ LoaderIdle /\ EnvIdle /\ PageIdle /\ FieldIdle

NextPre ==
    \/ RunPreContest /\ UNCHANGED <<pipeline_vars, matchup_vars, columns_vars, sims_vars,
            output_vars, proe_vars, scrape_vars, loader_vars, env_vars, page_vars, field_vars>>
    \/ BuildMyLineups /\ UNCHANGED <<pipeline_vars, matchup_vars, columns_vars, sims_vars,
            output_vars, proe_vars, scrape_vars, loader_vars, env_vars, page_vars, field_vars>>
    \/ BuildFieldLineups /\ UNCHANGED <<pipeline_vars, matchup_vars, columns_vars, sims_vars,
            output_vars, proe_vars, scrape_vars, loader_vars, env_vars, page_vars, field_vars>>

\* the lineup builders of the pre-contest simulator
SpecPre == InitPre /\ [][NextPre]_vars

\* ---- properties ----------------------------------------------------------

\* the metric columns of a row and the league average each is compared with
MetricAverage(league) ==
    [c \in {"Team_EPA_Play", "Team_Explosive_Play_Rate", "Team_Points_Per_Drive",
            "Opp_EPA_Play_Allowed", "Opp_Explosive_Play_Rate_Allowed",
            "Opp_Points_Per_Drive_Allowed", "ITT"} |->
        CASE c = "Team_EPA_Play" -> league.EPA_Play
          [] c = "Team_Explosive_Play_Rate" -> league.Explosive_Play_Rate
          [] c = "Team_Points_Per_Drive" -> league.Points_Per_Drive
          [] c = "Opp_EPA_Play_Allowed" -> league.EPA_Play_Allowed
          [] c = "Opp_Explosive_Play_Rate_Allowed" -> league.Explosive_Play_Rate_Allowed
          [] c = "Opp_Points_Per_Drive_Allowed" -> league.Points_Per_Drive_Allowed
          [] c = "ITT" -> league.Implied_Total]

\* C1: whatever the row, the league averages and the PROE table are, the
\* multiplier compute_matchup_multiplier returns lies in [0.8, 1.3].
C1_MultiplierBounded ==
    m_pc = "done" => FLe(MATCHUP_VOL_MIN, m_out) /\ FLe(m_out, MATCHUP_VOL_MAX)

\* C1 witness: a call whose weighted score lies above 1.3 and was clipped to it
C1_ClippedHigh ==
    /\ m_pc = "done"
    /\ matchup_score(m_row, m_league, m_proe) > MATCHUP_VOL_MAX
    /\ m_out = MATCHUP_VOL_MAX

\* the row is neutral: EPA, EPA allowed and ITT are in the row and equal the
\* league averages, every other metric equals its league average or is absent
NeutralMatchup ==
    /\ {"Team_EPA_Play", "Opp_EPA_Play_Allowed", "ITT"} \subseteq DOMAIN m_row
    /\ \A c \in DOMAIN MetricAverage(m_league) :
          c \in DOMAIN m_row => m_row[c] = MetricAverage(m_league)[c]
    /\ ~m_proe.given

\* C8: for a neutral matchup without a PROE table the multiplier is exactly 1.0.
C8_NeutralIsOne == (m_pc = "done" /\ NeutralMatchup) => m_out = SCALE

\* C8 witness: a neutral row with every metric present has been evaluated
C8_NeutralEvaluated ==
    /\ m_pc = "done"
    /\ NeutralMatchup
    /\ DOMAIN MetricAverage(m_league) \subseteq DOMAIN m_row
    /\ m_league.Explosive_Play_Rate # 0

\* ---- properties of the pipeline ------------------------------------------

VolatilityBuilt == pc \in {"volatility", "slate", "distributions", "simulated"}

DistributionsBuilt == pc \in {"distributions", "simulated"}

\* the position std build_player_volatility merged into the rows of a position
PositionStd(position) ==
    pos_std_fpts(RecentStats(weekly_stats), RecentStats(weekly_dst_stats), position)

\* C2: after build_distributions every player's adj_std is effective std times
\* multiplier clamped to [MIN_STD, MAX_STD], hence inside [MIN_STD, MAX_STD].
C2_AdjStdClamped ==
    DistributionsBuilt =>
        \A i \in 1..Len(players_df) :
            LET r == players_df[i]
            IN /\ r.adj_std = Clip(FMul(r.effective_std_fpts, r.matchup_vol_multiplier),
                                   MIN_STD, MAX_STD)
               /\ FLe(MIN_STD, r.adj_std)
               /\ FLe(r.adj_std, MAX_STD)

\* the spread parameter the claim C3 states for a median and an adj_std
ClaimedSigmaLog(median, adj_std) ==
    LET raw == FLn(SCALE + FDiv(adj_std, PyMax(median, EPS) + EPS))
    IN IF raw < MIN_SIGMA_LOG THEN MIN_SIGMA_LOG ELSE IF raw > MAX_SIGMA_LOG THEN MAX_SIGMA_LOG ELSE raw

\* C3: for every player with adj_std in [MIN_STD, MAX_STD], sigma_log is
\* ln(1 + adj_std / (max(median, EPS) + EPS)) clipped to [0.2, 1.5].
C3_SigmaLogBounded ==
    DistributionsBuilt =>
        \A i \in 1..Len(players_df) :
            LET r == players_df[i]
            IN (FLe(MIN_STD, r.adj_std) /\ FLe(r.adj_std, MAX_STD)) =>
                  /\ FLe(MIN_SIGMA_LOG, r.sigma_log)
                  /\ FLe(r.sigma_log, MAX_SIGMA_LOG)
                  /\ r.sigma_log = ClaimedSigmaLog(r.OWS_Median_Proj, r.adj_std)

\* C3 witness: a slate with a player whose sigma_log lies strictly between the
\* bounds and a player whose sigma_log was clipped
C3_SigmaLogCases ==
    /\ DistributionsBuilt
    /\ \E i \in 1..Len(players_df) :
          /\ FLe(MIN_STD, players_df[i].adj_std)
          /\ MIN_SIGMA_LOG < players_df[i].sigma_log
          /\ players_df[i].sigma_log < MAX_SIGMA_LOG
    /\ \E i \in 1..Len(players_df) :
          /\ FLe(MIN_STD, players_df[i].adj_std)
          /\ players_df[i].sigma_log \in {MIN_SIGMA_LOG, MAX_SIGMA_LOG}

\* C4: after run_simulations every player's percentile columns are in
\* ascending order and each holds the percentile of the player's own column
\* of the outcome matrix.
C4_PercentilesOrdered ==
    pc = "simulated" =>
        \A j \in 1..Len(players_df) :
            /\ \A k \in 1..(Len(PERCENTILES) - 1) :
                  FLe(players_df[j].Sim_P[PERCENTILES[k]], players_df[j].Sim_P[PERCENTILES[k + 1]])
            /\ \A k \in 1..Len(PERCENTILES) :
                  players_df[j].Sim_P[PERCENTILES[k]]
                     = Percentile(MatrixColumn(sim_matrix, j), PERCENTILES[k])

\* C5: every run of run_simulations on the same table gives the outcome
\* matrix and the percentile columns of the first run, whatever was drawn
\* from the generator before it.
C5_Deterministic ==
    (pc = "simulated" /\ first_run.done) =>
        /\ sim_matrix = first_run.matrix
        /\ players_df = first_run.table

\* C5 witness: a second run of at least two players, with a draw of other
\* code before it
C5_SecondRun ==
    /\ pc = "simulated"
    /\ runs >= 2
    /\ other_draws >= 1
    /\ Len(players_df) >= 2

\* C6: a profile with at least MIN_GAMES_FOR_PLAYER games has its own std; one
\* with 2 or 3 games has the blend with weight games / 4 on its own std, a
\* weight that grows with the games and reaches 1.0 at 4 games; one with
\* fewer than 2 games has the position std times 1.2.
C6_FallbackBlending ==
    VolatilityBuilt =>
        /\ \A i \in 1..Len(player_volatility) :
              LET v == player_volatility[i]
                  g == v.hist_games
              IN /\ g >= 4 => v.effective_std_fpts = v.hist_std_fpts
                 /\ (g >= 2 /\ g < 4) =>
                       v.effective_std_fpts
                          = FAdd(FMul(g * 250, v.hist_std_fpts),
                                 FMul(SCALE - g * 250, PositionStd(v.Position)))
                 /\ g < 2 => v.effective_std_fpts = FMul(PositionStd(v.Position), 1200)
        /\ \A g \in 2..(MIN_GAMES_FOR_PLAYER - 1) : blend_weight(g) < blend_weight(g + 1)
        /\ blend_weight(MIN_GAMES_FOR_PLAYER) = SCALE

\* C6 witness: a table with a profile of 0 games and a profile of 2 or 3 games
C6_LowSampleProfiles ==
    /\ VolatilityBuilt
    /\ \E i \in 1..Len(player_volatility) : player_volatility[i].hist_games = 0
    /\ \E i \in 1..Len(player_volatility) : player_volatility[i].hist_games \in {2, 3}

\* C7 as stated: every profile's effective_std_fpts lies in [MIN_STD, MAX_STD].
C7_EffectiveStdClamped ==
    VolatilityBuilt =>
        \A i \in 1..Len(player_volatility) :
            /\ FLe(MIN_STD, player_volatility[i].effective_std_fpts)
            /\ FLe(player_volatility[i].effective_std_fpts, MAX_STD)

\* C7 amended: build_player_volatility does not clamp effective_std_fpts; it
\* is undefined (NaN) exactly when the profile has fewer than 4 games and its
\* position has no sample std, and otherwise lies between 0 and 1.2 times the
\* larger of the player's std and the position std.
C7_EffectiveStdRange ==
    VolatilityBuilt =>
        \A i \in 1..Len(player_volatility) :
            LET v == player_volatility[i]
                p == PositionStd(v.Position)
                larger == IF IsNaN(p) \/ v.hist_std_fpts > p THEN v.hist_std_fpts ELSE p
            IN /\ IsNaN(v.effective_std_fpts) <=> (v.hist_games < MIN_GAMES_FOR_PLAYER /\ IsNaN(p))
               /\ ~IsNaN(v.effective_std_fpts) =>
                     /\ 0 <= v.effective_std_fpts
                     /\ v.effective_std_fpts <= FMul(larger, 1200)

\* C7 witness: a table with a profile above MAX_STD and a blended profile
C7_UnclampedProfile ==
    /\ VolatilityBuilt
    /\ \E i \in 1..Len(player_volatility) :
          /\ ~IsNaN(player_volatility[i].effective_std_fpts)
          /\ player_volatility[i].effective_std_fpts > MAX_STD
    /\ \E i \in 1..Len(player_volatility) :
          /\ ~IsNaN(player_volatility[i].effective_std_fpts)
          /\ player_volatility[i].hist_games \in {2, 3}

\* the row with the metrics of a missing efficiency row set to the league averages
NeutralisedRow(r) ==
    LET o_missing == FindRow(sharp_offense, "Team", abbrev_to_full(r.Team)) = 0
        d_missing == FindRow(sharp_defense, "Team", abbrev_to_full(r.Opp)) = 0
    IN [r EXCEPT
          !.Team_EPA_Play = IF o_missing THEN league_avgs.EPA_Play ELSE @,
          !.Team_Explosive_Play_Rate = IF o_missing THEN league_avgs.Explosive_Play_Rate ELSE @,
          !.Team_Points_Per_Drive = IF o_missing THEN league_avgs.Points_Per_Drive ELSE @,
          !.Opp_EPA_Play_Allowed = IF d_missing THEN league_avgs.EPA_Play_Allowed ELSE @,
          !.Opp_Explosive_Play_Rate_Allowed =
              IF d_missing THEN league_avgs.Explosive_Play_Rate_Allowed ELSE @,
          !.Opp_Points_Per_Drive_Allowed =
              IF d_missing THEN league_avgs.Points_Per_Drive_Allowed ELSE @]

\* C9: a player whose team has no offensive row or whose opponent has no
\* defensive row gets the multiplier it would get with the missing metrics at
\* the league averages.
C9_MissingIsNeutral ==
    DistributionsBuilt =>
        \A i \in 1..Len(players_df) :
            players_df[i].matchup_vol_multiplier
               = compute_matchup_multiplier(NeutralisedRow(players_df[i]), league_avgs, weekly_proe)

\* the records of player_volatility with the key of a slate row
ExactRecords(r) ==
    SelectSeq(player_volatility, LAMBDA v : v.Player = r.Player /\ v.Team = r.Team
                                            /\ v.Position = r.Position)

FoundStd(r) ==
    LET cands == SelectSeq(player_volatility, LAMBDA v : v.Team = r.Team /\ v.Position = r.Position)
        named == SelectSeq(cands, LAMBDA v : NormalizeName(v.Player) = NormalizeName(r.Player))
        primary == IF Len(ExactRecords(r)) > 0 THEN ExactRecords(r)[1].effective_std_fpts ELSE NaN
    IN IF ~IsNaN(primary) THEN primary
       ELSE IF Len(cands) = 1 THEN cands[1].effective_std_fpts
       ELSE IF Len(cands) > 1 /\ Len(named) > 0 THEN named[1].effective_std_fpts
       ELSE NaN

VolatilityPositions == { player_volatility[k].Position : k \in 1..Len(player_volatility) }

\* C11: the volatility computation does not continue when a player's position
\* has no position-level std: once build_player_volatility has returned, every
\* low-sample profile has a defined position std, and once build_distributions
\* has returned, no slate player was given a value for a position without
\* records or with an undefined position default.
C11_MissingPositionStdFails ==
    /\ VolatilityBuilt =>
          \A i \in 1..Len(player_volatility) :
              player_volatility[i].hist_games < MIN_GAMES_FOR_PLAYER
                 => ~IsNaN(PositionStd(player_volatility[i].Position))
    /\ DistributionsBuilt =>
          \A i \in 1..Len(players_df) :
              IsNaN(FoundStd(players_df[i]))
                 => /\ players_df[i].Position \in VolatilityPositions
                    /\ ~IsNaN(players_df[i].effective_std_fpts)

\* ---- properties of the column checks --------------------------------------

\* C12: when a column the pipeline reads is missing from an input file, no
\* iteration of the simulation loop executes, and the run ends in an error
\* that names the missing column and the file it was expected in.
C12_FailFastMissingColumn ==
    c_missing # NoColumn =>
        /\ c_iterations = 0
        /\ c_pc # "output"
        /\ c_pc = "failed" => /\ c_error.column = c_missing.column
                              /\ c_error.table = c_missing.table

\* ---- properties of the lineup simulator ------------------------------------

\* the names in the user lineups and the field lineups that players_df lacks
UnknownPlayers ==
    all_lineup_players(s_field, s_in.user_lineups) \ PlayerNames(sim_players_df)

\* C13: once the button is pressed with a lineup that names a player missing
\* from the players table, the run is stopped by the validation, which reports
\* exactly the missing names, before the first iteration; and no iteration
\* ever scores a lineup with such a player.
C13_UnknownPlayerStops ==
    /\ (s_pc \notin {"idle", "ready"} /\ UnknownPlayers # {}) =>
          /\ s_pc = "stopped"
          /\ s_missing = UnknownPlayers
          /\ s_sim_idx = 0
          /\ s_trace = <<>>
          /\ s_results = <<>>
    /\ (s_trace # <<>> \/ s_sim_idx > 0) => UnknownPlayers = {}

\* C13 witness: a run stopped by the validation because of a user lineup,
\* next to a valid user lineup and valid field lineups
C13_StoppedByValidation ==
    /\ s_pc = "stopped"
    /\ s_missing = {"Ghost"}
    /\ Len(s_in.user_lineups) = 2
    /\ s_sim_idx = 0

\* the steps of one iteration in the order the claim C20 gives
IterationProtocol(use_correlations) ==
    <<"env", "sample", "team_adjustment", "environment">>
    \o (IF use_correlations THEN <<"qb_pass_catcher", "rb_team_scoring", "dst_spread">> ELSE <<>>)
    \o <<"lineup_scores", "rank_payout">>

\* s is a prefix of t
IsPrefix(s, t) == Len(s) <= Len(t) /\ SubSeq(t, 1, Len(s)) = s

\* C20: the steps of every iteration happen in the order of the protocol, a
\* lineup score is the sum of the scores left by all adjustments of the
\* iteration, every user lineup has one result per completed iteration, and a
\* run that has passed the validation ends with n_sims results per lineup.
C20_IterationProtocol ==
    s_pc \in {"running", "done", "error"} =>
        /\ IsPrefix(s_trace, IterationProtocol(s_in.use_correlations))
        /\ \A i \in 1..Len(s_results) : Len(s_results[i]) = s_sim_idx
        /\ s_step = "scored" =>
              \A i \in 1..Len(s_in.user_lineups) :
                  s_lineup_scores.user[i] = LineupScore(s_scores, s_in.user_lineups[i])
        /\ s_pc \in {"done", "error"} =>
              \A i \in 1..Len(s_results) : Len(s_results[i]) = MaxSims

\* ---- further properties of the pipeline -----------------------------------

\* C14: after run_simulations every player's Volatility_Index is
\* (Ceiling_Proj - Floor_Proj) / (OWS_Median_Proj + 0.01) and is >= 0.
C14_VolatilityIndexNonNegative ==
    pc = "simulated" =>
        \A j \in 1..Len(players_df) :
            LET r == players_df[j]
            IN /\ r.OWS_Median_Proj > 0
               /\ r.Volatility_Index
                     = FDiv(FSub(r.Ceiling_Proj, r.Floor_Proj), FAdd(r.OWS_Median_Proj, 10))
               /\ FLe(0, r.Volatility_Index)

\* ---- properties of the persisted output -----------------------------------

\* C15: the rows of the saved file are the rows of the results; of two rows
\* with positions of the order QB, RB, WR, TE, DST the one with the earlier
\* position comes first, and of two rows with the same position, one outside
\* the five included, the one with the larger Salary comes first.
C15_OutputOrder ==
    o_pc = "saved" =>
        /\ Len(o_output_df) = Len(o_results_df)
        /\ {o_output_df[i].index : i \in 1..Len(o_output_df)} = 1..Len(o_results_df)
        /\ \A i \in 1..Len(o_output_df) :
               LET r == o_output_df[i]
               IN r.Position = o_results_df[r.index].Position
                  /\ r.Salary = o_results_df[r.index].Salary
        /\ \A i, j \in 1..Len(o_output_df) :
               LET a == o_output_df[i]
                   b == o_output_df[j]
                   ORDER == <<"QB", "RB", "WR", "TE", "DST">>
                   at(p) == CHOOSE k \in 1..5 : ORDER[k] = p
               IN i < j =>
                    /\ ({a.Position, b.Position} \subseteq {"QB", "RB", "WR", "TE", "DST"}
                            => at(a.Position) <= at(b.Position))
                    /\ (a.Position = b.Position => a.Salary >= b.Salary)

\* a saved table that had to be reordered: a kicker first in the file and two
\* tight ends in ascending salary
C15_ReorderedWithKicker ==
    /\ o_pc = "saved"
    /\ Len(o_results_df) = 3
    /\ o_results_df[1].Position = "K"
    /\ o_results_df[2] = [Position |-> "TE", Salary |-> 3000]
    /\ o_results_df[3] = [Position |-> "TE", Salary |-> 5000]
    /\ o_output_df[3].Position = "K"

\* ---- properties of calculate_weighted_proe --------------------------------

\* the weeks of the team's rows
TeamWeeks == {r.week : r \in {q \in p_weekly_proe : q.posteam = abbrev_to_full(p_team_abbrev)}}

\* the average of the team's rows of the last 8 weeks up to its most recent
\* one, a row k weeks older than the most recent one weighted with 0.85^k
ProeByWeeksBack ==
    LET last == CHOOSE w \in TeamWeeks : \A v \in TeamWeeks : v <= w
        rows == SortedByWeekDesc({r \in p_weekly_proe :
                    r.posteam = abbrev_to_full(p_team_abbrev) /\ r.week > last - 8})
        n == Len(rows)
        weights == [i \in 1..n |-> DecayWeight(last - rows[i].week)]
    IN FDiv(SumTo([i \in 1..n |-> FMul(rows[i].proe, weights[i])], n), SumTo(weights, n))

\* C16: calculate_weighted_proe returns 0.0 for a team without PROE rows and
\* otherwise the average of the team's rows of its last 8 weeks, the row k
\* weeks before the most recent one weighted with 0.85^k, also when the
\* team's weeks are not consecutive.
C16_WeightByWeeksBack ==
    p_pc = "done" =>
        p_out = IF TeamWeeks = {} THEN 0 ELSE ProeByWeeksBack

\* ---- properties of the scraper --------------------------------------------

RECURSIVE Ascending(_, _)
\* the weeks of a set from week_num on, in ascending order
Ascending(weeks, week_num) ==
    IF \A w \in weeks : w < week_num THEN <<>>
    ELSE (IF week_num \in weeks THEN <<week_num>> ELSE <<>>) \o Ascending(weeks, week_num + 1)

\* C17: the weeks get_available_weeks returns are exactly the weeks of
\* 1..max_week that are not in existing_weeks, in ascending order (none when
\* all exist); a run never requests a week get_existing_weeks found in the
\* position's CSV, and the run after a fully successful run requests nothing.
C17_DeltaScraping ==
    /\ f_pc = "weeks" =>
          /\ f_existing_weeks = get_existing_weeks(f_before[f_position])
          /\ f_requested[f_position]
                \o [i \in 1..Len(f_available_weeks) |-> IntOf(f_available_weeks[i].value)]
               = Ascending((1..MaxScrapeWeek) \ f_existing_weeks, 1)
          /\ \A i \in 1..Len(f_available_weeks) :
                f_available_weeks[i].text = WeekText(IntOf(f_available_weeks[i].value))
    /\ f_pc # "idle" =>
          \A p \in 1..Len(ScrapePositions) : \A i \in 1..Len(f_requested[p]) :
              f_requested[p][i] \notin get_existing_weeks(f_before[p])
    /\ f_prev_clean => f_requested = NoRequests

\* the second run is over without a request, after a first run that scraped
\* every missing week without a failure and appended the weeks 1 and 3 to a
\* file that held week 2
C17_SecondRunIdle ==
    /\ f_pc = "done"
    /\ f_run = 2
    /\ f_prev_clean
    /\ f_requested = NoRequests
    /\ \A p \in 1..Len(ScrapePositions) :
          1..MaxScrapeWeek \subseteq get_existing_weeks(f_files[p])
    /\ \E p \in 1..Len(ScrapePositions) :
          /\ f_files[p].rows[1] = WeekText(1)
          /\ f_files[p].rows[2] = WeekText(2)
          /\ Len(f_files[p].rows) = 3
    /\ \E p \in 1..Len(ScrapePositions) : f_files[p].rows[1] = WeekText(2)

\* ---- properties of load_matchups ------------------------------------------

\* C18: from an existing odds.csv load_matchups makes exactly two rows per
\* game, the home team as Init and then the away team as Init; their Spreads
\* are negatives of each other, their Totals are the game's line and their
\* ITTs sum to the Total.
C18_TwoRowsPerGame ==
    (d_pc = "loaded" /\ d_odds_exists) =>
        /\ Len(d_matchups) = 2 * Len(d_odds)
        /\ \A g \in 1..Len(d_odds) :
              LET game == d_odds[g]
                  home == d_matchups[2 * g - 1]
                  away == d_matchups[2 * g]
              IN /\ home.Init = game.home_team /\ home.Opp = game.away_team
                 /\ away.Init = game.away_team /\ away.Opp = game.home_team
                 /\ home.Spread = game.spread_home
                 /\ FAdd(home.Spread, away.Spread) = 0
                 /\ home.Total = game.over_under_line
                 /\ away.Total = home.Total
                 /\ FAdd(home.ITT, away.ITT) = home.Total

\* two games loaded, the first with a home favourite by 3.5 points
C18_TwoGamesLoaded ==
    /\ d_pc = "loaded"
    /\ d_odds_exists
    /\ Len(d_odds) = 2
    /\ Len(d_matchups) = 4
    /\ d_odds[1].spread_home = -3500
    /\ d_matchups[2].Spread = 3500
    /\ d_matchups[1].ITT # d_matchups[2].ITT

\* ---- the median of the simulated distribution ------------------------------

\* C19: Sim_P50 converges to OWS_Median_Proj: every player's outcomes are
\* drawn from a lognormal distribution with a defined sigma_log whose median
\* exp(mu_log), the limit of Sim_P50 for growing N, is within 5% of
\* OWS_Median_Proj, and Sim_P50 is a number.
C19_MedianConvergence ==
    pc = "simulated" =>
        \A j \in 1..Len(players_df) :
            LET r == players_df[j]
                limit == FExp(r.mu_log)
                err == IF limit >= r.OWS_Median_Proj THEN limit - r.OWS_Median_Proj
                       ELSE r.OWS_Median_Proj - limit
            IN /\ ~IsNaN(r.sigma_log)
               /\ ~IsNaN(r.Sim_P[50])
               /\ 100 * err <= 5 * r.OWS_Median_Proj

\* ---- the correlation rules of the lineup simulator -------------------------

\* the QBs of the lineups on the team of a player whose drawn score, the
\* score before the rule, is above (boom) 1.5 times and below (bust) 0.5
\* times their median
TeamQbs(n) ==
    { q \in players_in_lineups :
         /\ PlayerRow(sim_players_df, q).Position = "QB"
         /\ PlayerRow(sim_players_df, q).Team = PlayerRow(sim_players_df, n).Team }

BoomingQbs(n) ==
    { q \in TeamQbs(n) : 2 * s_scores[q] > 3 * PlayerRow(sim_players_df, q).median_proj }

BustingQbs(n) ==
    { q \in TeamQbs(n) : 2 * s_scores[q] < PlayerRow(sim_players_df, q).median_proj }

\* C21: in the step of the QB rule a WR or TE of the lineups is multiplied by
\* a factor in [1.1, 1.3] when the QB of its team scored above 1.5 times the
\* QB's median and by a factor in [0.7, 0.9] when the QB scored below 0.5
\* times it; no QB does both, and every other score is left as it was.
C21_QbPassCatcherRule ==
    [][(s_pc = "running" /\ s_step = "sampled" /\ s_step' = "qb") =>
          /\ s_in.use_correlations
          /\ DOMAIN s_scores' = DOMAIN s_scores
          /\ BoomingQbs("W1") \cap BustingQbs("W1") = {}
          /\ \A n \in DOMAIN s_scores :
                LET catcher == /\ n \in players_in_lineups
                               /\ PlayerRow(sim_players_df, n).Position \in {"WR", "TE"}
                IN IF catcher /\ BoomingQbs(n) # {}
                   THEN /\ s_scores'[n] >= Scaled(s_scores[n], 1100)
                        /\ s_scores'[n] <= Scaled(s_scores[n], 1300)
                   ELSE IF catcher /\ BustingQbs(n) # {}
                   THEN /\ s_scores'[n] >= Scaled(s_scores[n], 700)
                        /\ s_scores'[n] <= Scaled(s_scores[n], 900)
                   ELSE s_scores'[n] = s_scores[n]]_vars

\* after the QB rule: the QB of KC boomed, his receiver W1 is above his own
\* median and the receivers of BUF are where the draw put them
C21_BoomBoostedReceivers ==
    /\ s_pc = "running"
    /\ s_step = "qb"
    /\ BoomingQbs("W1") = {"Q"}
    /\ s_scores["W1"] > PlayerRow(sim_players_df, "W1").median_proj
    /\ s_scores["W4"] > PlayerRow(sim_players_df, "W4").median_proj
    /\ s_scores["W2"] <= PlayerRow(sim_players_df, "W2").median_proj
    /\ s_scores["T"] <= PlayerRow(sim_players_df, "T").median_proj

\* what a step did to the score of a player
ScoreChange(n) ==
    IF s_scores'[n] > s_scores[n] THEN "boost"
    ELSE IF s_scores'[n] < s_scores[n] THEN "penalty" ELSE "unchanged"

\* C22: in the step of the RB rule an RB whose team has a game is boosted
\* exactly when the scoring multiplier of its team is above 1.1 and penalized
\* exactly when it is below 0.9, and the RB rule of apply_correlations decides
\* the same for the same multiplier.
C22_RbThresholdsConsistent ==
    [][(s_pc = "running" /\ s_step = "qb" /\ s_step' = "rb") =>
          \A n \in WithGame("RB") :
              /\ ScoreChange(n) = "boost" <=> TeamMult(n) > 1100
              /\ ScoreChange(n) = "penalty" <=> TeamMult(n) < 900
              /\ apply_correlations_rb(TeamMult(n)) = ScoreChange(n)]_vars

\* the points by which the team of a player is favoured in the simulated
\* spread of its game: t1 scores (total_sim + spread_sim) / 2
FavouredBy(n) ==
    LET team == PlayerRow(sim_players_df, n).Team
        game_id == team_game(team)
    IN IF team = game_id[1] THEN s_env[game_id].spread_sim ELSE 0 - s_env[game_id].spread_sim

\* C23: with correlations enabled and a DST of the lineups whose team has a
\* game, the step of the DST rule ends normally: the run goes on and the DST
\* is multiplied by a factor in [1.1, 1.2] when its team is favoured by more
\* than 3 points, by a factor in [0.8, 0.9] when it is an underdog by more
\* than 3 points, and is unchanged otherwise.
C23_DstSpreadRule ==
    [][(/\ s_pc = "running" /\ s_step = "rb" /\ WithGame("DST") # {}
        /\ <<s_pc, s_step>>' # <<s_pc, s_step>>) =>
          /\ s_pc' = "running"
          /\ s_step' = "dst"
          /\ \A n \in WithGame("DST") :
                IF FavouredBy(n) > 3000
                THEN /\ s_scores'[n] >= Scaled(s_scores[n], 1100)
                     /\ s_scores'[n] <= Scaled(s_scores[n], 1200)
                ELSE IF FavouredBy(n) < -3000
                THEN /\ s_scores'[n] >= Scaled(s_scores[n], 800)
                     /\ s_scores'[n] <= Scaled(s_scores[n], 900)
                ELSE s_scores'[n] = s_scores[n]]_vars

\* ---- properties of build_env_state ----------------------------------------

\* the distance of the sum of the two teams' points from total_sim
RenormError(game) ==
    LET total == game.points["BUF"] + game.points["KC"]
    IN IF total >= game.total_sim THEN total - game.total_sim ELSE game.total_sim - total

\* C24: after build_env_state the simulated points of the two teams of every
\* game sum to total_sim (to a twentieth of a point, the error of the
\* fixed-point arithmetic), whatever the draws, the strengths and alpha.
C24_PointsSumToTotal ==
    e_pc = "built" => \A g \in DOMAIN e_env : RenormError(e_env[g]) <= 50

\* ---- properties of the page of the lineup simulator ------------------------

\* the three uploads are there and have the columns the validation asks for
UploadsValid ==
    /\ g_files.roo.uploaded /\ g_files.matchup.uploaded /\ g_files.lineups.uploaded
    /\ {"Player", "Name"} \cap g_files.roo.columns # {}
    /\ {"Position", "Team", "Salary", "OWS_Median_Proj"} \subseteq g_files.roo.columns
    /\ {"Init", "Team"} \cap g_files.matchup.columns # {}
    /\ {"Opp", "Total"} \subseteq g_files.matchup.columns
    /\ \/ position_cols \subseteq g_files.lineups.columns
       \/ {"QB", "RB", "RB.1", "WR", "WR.1", "WR.2", "TE", "FLEX", "DST"}
             \subseteq g_files.lineups.columns

\* C25: with the three uploads and their columns valid the run of the page
\* shows no error and is not stopped: data processing completes.
C25_ThreeUploadsSuffice ==
    (g_pc # "idle" /\ UploadsValid) => g_pc \notin {"error", "stopped", "waiting"}

\* the user lineups that strictly out-score every other sampled lineup of the
\* iteration just ranked
OutScoresAll(i) ==
    LET all_scores == s_lineup_scores.field \o s_lineup_scores.user
        own == Len(s_lineup_scores.field) + i
    IN \A k \in 1..Len(all_scores) : k # own => s_lineup_scores.user[i] > all_scores[k]

\* an iteration has just been ranked (lines 1000-1020)
JustRanked == s_pc = "running" /\ s_step = "top" /\ s_sim_idx > 0

\* C26: in every iteration the scaled rank of a user lineup is a contest rank
\* in 1..field_size, and a user lineup that strictly out-scores every other
\* sampled lineup has scaled rank 1.
C26_RankScalingPreservesFirst ==
    JustRanked =>
        \A i \in 1..Len(s_results) :
            LET result == s_results[i][s_sim_idx]
            IN /\ result.rank \in 1..s_in.field_size
               /\ OutScoresAll(i) => result.rank = 1

\* the positions a roster slot accepts: QB, RB, RB, WR, WR, WR, TE, FLEX, DST
RosterSlots ==
    << {"QB"}, {"RB"}, {"RB"}, {"WR"}, {"WR"}, {"WR"}, {"TE"}, {"RB", "WR", "TE"}, {"DST"} >>

\* a legal roster over the rows of an upload: nine different names, every slot
\* filled by a player of the position of the slot with ownership above zero,
\* within the salary cap
LegalRoster(rows, lineup) ==
    /\ Len(lineup) = 9
    /\ Cardinality({ lineup[k] : k \in 1..9 }) = 9
    /\ \A k \in 1..9 :
          \E i \in 1..Len(rows) :
              /\ rows[i].Name = lineup[k]
              /\ rows[i].Position \in RosterSlots[k]
              /\ rows[i].Proj_Own > 0
    /\ total_salary(rows, lineup) <= 50000

\* C27: every lineup of generate_field_lineups is a legal roster, the loop
\* makes at most 5 x field_size_sim attempts and returns at most
\* field_size_sim lineups.
C27_FieldLineupsLegal ==
    fl_pc # "idle" =>
        /\ \A k \in 1..Len(fl_lineups) : LegalRoster(fl_players_df, fl_lineups[k])
        /\ fl_attempts <= 5 * fl_field_size_sim
        /\ Len(fl_lineups) <= fl_field_size_sim

\* the rows of projections_df named by a lineup, name by name
PreLineupRows(rows, lineup) ==
    [k \in 1..Len(lineup) |-> CHOOSE r \in { rows[i] : i \in 1..Len(rows) } : r.name = lineup[k]]

\* the sum of a field of a sequence of rows
RECURSIVE SalarySum(_)
SalarySum(rows) == IF rows = <<>> THEN 0 ELSE Head(rows).Salary + SalarySum(Tail(rows))

\* nine different players, one QB, one DST, at least two RB, three WR and one
\* TE, the ninth being the RB, WR or TE of the FLEX, within the salary cap
PreLegalRoster(rows, lineup) ==
    LET picked == PreLineupRows(rows, lineup)
        count(position) == Cardinality({ k \in 1..Len(lineup) : picked[k].position = position })
    IN /\ Len(lineup) = 9
       /\ Cardinality({ lineup[k] : k \in 1..Len(lineup) }) = 9
       /\ count("QB") = 1 /\ count("DST") = 1
       /\ count("RB") >= 2 /\ count("WR") >= 3 /\ count("TE") >= 1
       /\ SalarySum(picked) <= 50000

\* C28: once at least 9 players have exposure > 0, every lineup the
\* pre-contest simulator builds, the user's and the field's, is a roster of 9
\* different players in the shape 1 QB, 2 RB, 3 WR, 1 TE, 1 FLEX, 1 DST with
\* a total salary of at most 50,000.
C28_PreContestLineupsLegal ==
    pr_pc \in {"mine", "built"} =>
        /\ \A k \in 1..Len(pr_my_lineups) : PreLegalRoster(pr_projections_df, pr_my_lineups[k])
        /\ \A k \in 1..Len(pr_field_lineups) :
              PreLegalRoster(pr_projections_df, pr_field_lineups[k])

\* the positions scrape_all_positions has processed in the current run
ProcessedPositions ==
    { p \in 1..Len(ScrapePositions) : p < f_position \/ f_pc = "done" }

\* C29: after scrape_all_positions has processed a position, the rows the
\* position's CSV held before the run are still in the file, ahead of the
\* rows the run appended.
C29_ScrapedRowsKept ==
    \A p \in ProcessedPositions : IsPrefix(f_before[p].rows, f_files[p].rows)

\* the two rows of the games of odds.csv in the table of load_matchups
GameRows ==
    { <<d_matchups[2 * g - 1], d_matchups[2 * g]>> : g \in 1..Len(d_odds) }
    \cup { <<d_matchups[2 * g], d_matchups[2 * g - 1]>> : g \in 1..Len(d_odds) }

\* C30: in the table load_matchups builds from odds.csv, the row of a game
\* whose Spread is negative (the favoured team) has an ITT greater than or
\* equal to the ITT of the opponent's row.
C30_FavouriteHasHigherITT ==
    (d_pc = "loaded" /\ d_odds_exists) =>
        \A rows \in GameRows : rows[1].Spread < 0 => rows[1].ITT >= rows[2].ITT

====
